---- MODULE Spec2Model ----
(***************************************************************************)
(* The download-and-reconciliation engine of epstein_downloader.py and     *)
(* retry_skipped.py as a state machine: the identity resolver, the         *)
(* single-file fetcher, the pair materializer, the progress ledger and the *)
(* dispatcher with its worker pool.                                        *)
(*                                                                         *)
(* Names are token sequences: the itemID "A - B" is <<"A", "B">>, so that  *)
(* entry.startswith(file_id + " - ") is "file_id is a proper prefix of     *)
(* entry".  URLs of companion files are sequences of dot-separated         *)
(* segments, so that rsplit(".", 1) is "all but the last segment".         *)
(***************************************************************************)
EXTENDS Integers, Sequences, FiniteSets, TLC

VARIABLES
    pairs,              \* the (pdf_url, video_url) list read in phase 1
    video_extensions,   \* the companion extension priority list
    server,             \* what the site answers for each URL
    force,              \* args.force
    workers,            \* args.workers
    tool,               \* which entry point runs: "downloader", "retry" or "pair"
    dry_run,            \* retry_skipped.py: args.dry_run
    runs,               \* the ordinal of the current invocation
    fs,                 \* output_dir: group -> entry -> file name -> file
    denied,             \* groups whose listing raises PermissionError
    progress_file,      \* PROGRESS_FILE on disk
    completed,          \* main(): the in-memory ledger
    remaining,          \* main(): pairs to dispatch
    mainpc,             \* main(): position of the main thread
    nsub,               \* main(): futures submitted so far
    i,                  \* main(): completions collected so far
    succeeded,          \* main(): counter
    failed,             \* main(): counter
    task,               \* one record per submitted pair (its future and worker frame)
    finished,           \* the futures that are done, in the order as_completed yields them
    hist,               \* history: the ledger as loaded, the ledger as reconciled and
                        \* the disk at the start of the run (of the call, for "pair"),
                        \* and the pairs the previous run dispatched with their results
    url_text,           \* the text of a URL handed to parse_url_info, token by token
    identity,           \* what parse_url_info returned for url_text
    progress_text,      \* the "completed" list in PROGRESS_FILE, a list of strings
    immediate_dehydrate, \* download_pair marks the files it wrote as online-only
    removed             \* what cleanup_empty_dirs returned

vars == <<pairs, video_extensions, server, force, workers, tool, dry_run, runs, fs,
          denied, progress_file, completed, remaining, mainpc, nsub, i, succeeded,
          failed, task, finished, hist, url_text, identity, progress_text,
          immediate_dehydrate, removed>>

\* what no step of a run changes
inputs == <<pairs, video_extensions, server, force, workers, tool, dry_run, runs,
            url_text, identity, progress_text, immediate_dehydrate, removed>>

(***************************************************************************)
(* Program constants and model bounds                                      *)
(***************************************************************************)
MAX_RETRIES == 3

\* seconds, multiplied by the number of the failed attempt
RETRY_DELAY == 2

save_every == 25

\* args.workers of the concurrent runs explored
NumWorkers == 2

\* number of chunks resp.iter_content yields for a non-empty body
BodyChunks == 2

\* number of consecutive download_pair calls on one pair
MaxCalls == 2

\* number of consecutive runs of the tools
MaxRuns == 2

(***************************************************************************)
(* Finite functions with a dynamic domain                                  *)
(***************************************************************************)
Empty == [k \in {} |-> 0]

Put(f, k, v) == [y \in DOMAIN f \cup {k} |-> IF y = k THEN v ELSE f[y]]

Drop(f, k) == [y \in DOMAIN f \ {k} |-> f[y]]

Max(a, b) == IF a >= b THEN a ELSE b

(***************************************************************************)
(* 4.1 Identity resolver                                                   *)
(***************************************************************************)
\* str.replace("www.", ""): every label "www" that is followed by a dot goes
RECURSIVE StripWww(_)
StripWww(labels) ==
    IF Len(labels) <= 1 THEN labels
    ELSE IF Head(labels) = "www" THEN StripWww(Tail(labels))
    ELSE <<Head(labels)>> \o StripWww(Tail(labels))

\* (group, file_id) of a primary URL.  url.dataset is the digit string the
\* pattern DataSet\s*(\d+) captures ("" when the pattern does not match),
\* url.host the dot-separated labels of the host, url.stem the last path
\* segment without its extension.  A group <<"DataSet", "3">> reads
\* "DataSet_3", a group <<"example", "com">> reads "example_com".
parse_url_info(url) ==
    IF url.dataset # ""
    THEN <<(<<"DataSet", url.dataset>>), url.stem>>
    ELSE <<StripWww(url.host), IF url.stem = <<>> THEN <<"unknown">> ELSE url.stem>>

\* f"{group}/{file_id}"
pair_key(pdf_url) == parse_url_info(pdf_url)

\* entry == file_id or entry.startswith(file_id + " - ")
Matches(entry, file_id) ==
    \/ entry = file_id
    \/ /\ Len(entry) > Len(file_id)
       /\ SubSeq(entry, 1, Len(file_id)) = file_id

(***************************************************************************)
(* 4.1 Identity resolver, on the text of the URL.  A URL is a sequence of  *)
(* tokens: the scheme with its "//", then words, numbers, percent escapes  *)
(* and the separators "/", ".", "?", "#", "=", " ".                        *)
(***************************************************************************)
\* unquote(url)
unquote(text) ==
    [k \in DOMAIN text |->
        CASE text[k] = "%20" -> " "
          [] text[k] = "%2F" -> "/"
          [] text[k] = "%2E" -> "."
          [] OTHER -> text[k]]

Numbers == {"1", "2", "3", "12"}

\* \s* from position k on
RECURSIVE SkipSpace(_, _)
SkipSpace(text, k) ==
    IF k <= Len(text) /\ text[k] = " " THEN SkipSpace(text, k + 1) ELSE k

Least(S) == CHOOSE k \in S : \A j \in S : k <= j

Greatest(S) == CHOOSE k \in S : \A j \in S : k >= j

\* re.search(r"DataSet\s*(\d+)", decoded): group(1) of the first match, ""
\* when there is none
ds_match(decoded) ==
    LET hits == {k \in DOMAIN decoded :
                    /\ decoded[k] = "DataSet"
                    /\ SkipSpace(decoded, k + 1) <= Len(decoded)
                    /\ decoded[SkipSpace(decoded, k + 1)] \in Numbers}
    IN  IF hits = {} THEN ""
        ELSE decoded[SkipSpace(decoded, Least(hits) + 1)]

\* text.split(sep)[-1]
LastPiece(text, sep) ==
    LET at == {k \in DOMAIN text : text[k] = sep}
    IN  IF at = {} THEN text ELSE SubSeq(text, Greatest(at) + 1, Len(text))

\* os.path.splitext(filename)[0]: up to the last dot, unless only dots
\* precede it
splitext(filename) ==
    LET dots == {k \in DOMAIN filename :
                    /\ filename[k] = "."
                    /\ \E j \in 1..(k - 1) : filename[j] # "."}
    IN  IF dots = {} THEN filename ELSE SubSeq(filename, 1, Greatest(dots) - 1)

\* urlparse(url).netloc: from behind the "//" of the scheme to the first
\* "/", "?" or "#"
netloc(text) ==
    LET stops == {k \in 2..Len(text) : text[k] \in {"/", "?", "#"}}
    IN  IF stops = {} THEN SubSeq(text, 2, Len(text))
        ELSE SubSeq(text, 2, Least(stops) - 1)

\* the labels of a host name, which .replace(".", "_") joins by "_"
Labels(host) == SelectSeq(host, LAMBDA x : x # ".")

\* what parse_url_info reads off the text: the number of the DataSet
\* pattern, the host and the stem of decoded.split("/")[-1]
Fields(text) ==
    [dataset |-> ds_match(unquote(text)),
     host |-> Labels(netloc(text)),
     stem |-> splitext(LastPiece(unquote(text), "/"))]

\* parse_url_info(url) for the text of a URL
parse_url_text(text) == parse_url_info(Fields(text))

(***************************************************************************)
(* The disk                                                                *)
(***************************************************************************)
isdir(f, g) == g \in DOMAIN f

HasFolder(f, g, e) == g \in DOMAIN f /\ e \in DOMAIN f[g]

listdir(f, g) == IF g \in DOMAIN f THEN DOMAIN f[g] ELSE {}

FolderFiles(f, g, e) == IF HasFolder(f, g, e) THEN f[g][e] ELSE Empty

\* os.makedirs(folder, exist_ok=True) followed by a change of its files
SetFolder(f, g, e, files) ==
    Put(f, g, Put(IF g \in DOMAIN f THEN f[g] ELSE Empty, e, files))

makedirs(f, g, e) == SetFolder(f, g, e, FolderFiles(f, g, e))

RmFolder(f, g, e) == IF HasFolder(f, g, e) THEN Put(f, g, Drop(f[g], e)) ELSE f

\* a file name in a folder: f"{file_id}.{ext}" or that plus ".tmp"
LocalName(file_id, ext) == <<file_id, ext, "">>

TempName(file_id, ext) == <<file_id, ext, ".tmp">>

\* a file written completely and closed
WholeFile == [size |-> BodyChunks, wr |-> {}]

\* names the file system refuses (a decoded '?', ':' ... in the file name)
InvalidIds == {<<"X?">>}

(***************************************************************************)
(* The site                                                                *)
(***************************************************************************)
\* ok: 2xx and a non-empty body; empty: 2xx and no body; notfound: 403/404;
\* error: another non-2xx status or a transport error before the body;
\* abort: 2xx and the transport fails mid-stream; flaky: error on the first
\* attempt of a call, ok afterwards
Kinds == {"ok", "empty", "notfound", "error", "abort", "flaky", "lapse"}

\* a URL the site does not know (a host that does not resolve) is a
\* transport error
KindOf(answers, url) == IF url \in DOMAIN answers THEN answers[url] ELSE "error"

Response(kind, attempt) ==
    CASE kind = "flaky" -> (IF attempt = 1 THEN "error" ELSE "ok")
      [] kind = "lapse" -> (IF attempt = 1 THEN "error" ELSE "notfound")
      [] OTHER -> kind

(***************************************************************************)
(* Worker frames                                                           *)
(***************************************************************************)
NoResult == [st |-> "none", pdf_ok |-> FALSE, vid_ok |-> FALSE]

Returned(p, v) == [st |-> "ret", pdf_ok |-> p, vid_ok |-> v]

Raised == [st |-> "exc", pdf_ok |-> FALSE, vid_ok |-> FALSE]

\* the frame of a future that executor.submit has queued.  nreq and reqs
\* log the requests of the download_pair call, nget and slept the requests
\* and the time.sleep calls of the download_file call in progress.
Queued ==
    [pc |-> "queued", folder |-> <<>>, stage |-> 0, attempt |-> 1, off |-> 0,
     resp |-> "", pdf_ok |-> FALSE, ret |-> NoResult, nreq |-> 0, reqs |-> <<>>,
     rmfail |-> FALSE, nget |-> 0, slept |-> <<>>, hooked |-> <<>>]

Tasks == 1..Len(task)

PairOf(t) == remaining[t]

GroupOf(t) == parse_url_info(PairOf(t).pdf)[1]

FileIdOf(t) == parse_url_info(PairOf(t).pdf)[2]

\* the extension of the file the frame is downloading: the PDF first, then
\* the companion extensions in order
ExtOf(r) == IF r.stage = 0 THEN "pdf" ELSE video_extensions[r.stage]

\* video_url.rsplit(".", 1)[0] if "." in video_url else video_url
base_video_url(video_url) ==
    IF Len(video_url) > 1 THEN SubSeq(video_url, 1, Len(video_url) - 1)
    ELSE video_url

\* the URL download_pair passes for the extension at position k
CompanionUrl(video_url, exts, k) ==
    IF exts[k] = exts[1] THEN video_url
    ELSE Append(base_video_url(video_url), exts[k])

\* what the site answers to the request the frame is about to make
KindFor(t) ==
    IF task[t].stage = 0 THEN KindOf(server.pdf, PairOf(t).pdf)
    ELSE KindOf(server.vid,
                CompanionUrl(PairOf(t).vid, video_extensions, task[t].stage))

\* download_pair after download_file has returned v
AfterFile(r, v) ==
    IF r.stage = 0
    THEN [r EXCEPT !.pdf_ok = v, !.stage = 1, !.attempt = 1, !.off = 0, !.resp = "",
                   !.pc = IF Len(video_extensions) = 0 THEN "dp_rmtree" ELSE "df_check"]
    ELSE IF v
    THEN [r EXCEPT !.pc = IF immediate_dehydrate THEN "dp_hook_pdf" ELSE "done",
                   !.ret = IF immediate_dehydrate THEN @ ELSE Returned(r.pdf_ok, TRUE),
                   !.attempt = 1, !.off = 0, !.resp = ""]
    ELSE IF r.stage < Len(video_extensions)
    THEN [r EXCEPT !.stage = @ + 1, !.attempt = 1, !.off = 0, !.resp = "",
                   !.pc = "df_check"]
    ELSE [r EXCEPT !.pc = "dp_rmtree", !.attempt = 1, !.off = 0, !.resp = ""]

\* an exception that leaves download_pair
Raise(r) == [r EXCEPT !.pc = "done", !.ret = Raised, !.attempt = 1, !.off = 0,
                      !.resp = ""]

\* the except branch of download_file without its removal loop
CleanupKeepsFiles(files, file_id, ext) == files

\* the except branch of download_file: remove local_path + ".tmp" and
\* local_path when they exist (errors ignored)
Cleanup(files, file_id, ext) ==
    [n \in DOMAIN files \ {TempName(file_id, ext), LocalName(file_id, ext)} |-> files[n]]

\* f.write(chunk) through the handle of task t: the file grows to newsize
WriteChunk(files, t, newsize) ==
    [n \in DOMAIN files |->
        IF t \in files[n].wr THEN [files[n] EXCEPT !.size = Max(@, newsize)]
        ELSE files[n]]

\* leaving the with block: the handle of task t is closed
CloseFile(files, t) ==
    [n \in DOMAIN files |-> [files[n] EXCEPT !.wr = @ \ {t}]]

\* the except branch sleeping RETRY_DELAY after every failed attempt
AfterErrorFlatDelay(r) ==
    IF r.attempt < MAX_RETRIES
    THEN [r EXCEPT !.attempt = @ + 1, !.off = 0, !.resp = "", !.pc = "df_get",
                   !.slept = Append(@, RETRY_DELAY)]
    ELSE AfterFile(r, FALSE)

\* AfterError that allows one attempt beyond MAX_RETRIES
AfterErrorOneMore(r) ==
    IF r.attempt <= MAX_RETRIES
    THEN [r EXCEPT !.attempt = @ + 1, !.off = 0, !.resp = "", !.pc = "df_get",
                   !.slept = Append(@, RETRY_DELAY * r.attempt)]
    ELSE AfterFile(r, FALSE)

\* the except branch after attempt r.attempt failed
AfterError(r) ==
    IF r.attempt < MAX_RETRIES
    THEN [r EXCEPT !.attempt = @ + 1, !.off = 0, !.resp = "", !.pc = "df_get",
                   !.slept = Append(@, RETRY_DELAY * r.attempt)]
    ELSE AfterFile(r, FALSE)

main_unchanged == <<progress_file, completed, remaining, mainpc, nsub, i,
                    succeeded, failed, hist>>

\* the future of task t is set when its worker leaves download_pair
Completion(t) ==
    finished' = IF task'[t].pc = "done" THEN Append(finished, t) ELSE finished

(***************************************************************************)
(* 4.3 download_pair and 4.2 download_file, one step per file system call  *)
(***************************************************************************)
\* StartTask with a pool that starts a thread per future
StartTaskUnbounded(t) ==
    /\ t \in Tasks
    /\ task[t].pc = "queued"
    /\ \A u \in 1..(t - 1) : task[u].pc # "queued"
    /\ task' = [task EXCEPT ![t].pc = "dp_list"]
    /\ UNCHANGED <<inputs, fs, denied, main_unchanged, finished>>

\* a worker thread takes the oldest queued future
StartTask(t) ==
    /\ t \in Tasks
    /\ task[t].pc = "queued"
    /\ \A u \in 1..(t - 1) : task[u].pc # "queued"
    /\ Cardinality({u \in Tasks : task[u].pc \notin {"queued", "done", "collected"}}) < workers
    /\ task' = [task EXCEPT ![t].pc = "dp_list"]
    /\ UNCHANGED <<inputs, fs, denied, main_unchanged, finished>>

\* download_pair looking only for the folder named file_id
ListFolderExact(t) ==
    /\ t \in Tasks
    /\ task[t].pc = "dp_list"
    /\ task' = [task EXCEPT ![t].folder = FileIdOf(t), ![t].pc = "dp_mkdir"]
    /\ UNCHANGED <<inputs, fs, denied, main_unchanged>>
    /\ Completion(t)

\* download_pair: look for an existing folder of the identity
ListFolder(t) ==
    /\ t \in Tasks
    /\ task[t].pc = "dp_list"
    /\ LET g == GroupOf(t)
           id == FileIdOf(t)
           found == IF isdir(fs, g) /\ g \notin denied
                    THEN {e \in listdir(fs, g) : Matches(e, id)}
                    ELSE {}
       IN  \E e \in (IF found = {} THEN {id} ELSE found) :
              task' = [task EXCEPT ![t].folder = e, ![t].pc = "dp_mkdir"]
    /\ UNCHANGED <<inputs, fs, denied, main_unchanged>>
    /\ Completion(t)

\* download_pair: os.makedirs(folder, exist_ok=True)
MakeFolder(t) ==
    /\ t \in Tasks
    /\ task[t].pc = "dp_mkdir"
    /\ IF task[t].folder \in InvalidIds
       THEN /\ task' = [task EXCEPT ![t] = Raise(@)]
            /\ fs' = fs
       ELSE /\ task' = [task EXCEPT ![t].pc = "df_check"]
            /\ fs' = makedirs(fs, GroupOf(t), task[t].folder)
    /\ UNCHANGED <<inputs, denied, main_unchanged>>
    /\ Completion(t)

\* download_file without its first two lines: the file is requested again
\* although it is on disk
CheckExistsAlwaysFetch(t) ==
    /\ t \in Tasks
    /\ task[t].pc = "df_check"
    /\ task' = [task EXCEPT ![t] = [task[t] EXCEPT !.nget = 0, !.slept = <<>>,
                                                   !.pc = "df_get", !.attempt = 1]]
    /\ fs' = makedirs(fs, GroupOf(t), task[t].folder)
    /\ UNCHANGED <<inputs, denied, main_unchanged>>
    /\ Completion(t)

\* download_file: the existence check and os.makedirs(os.path.dirname(..))
CheckExists(t) ==
    /\ t \in Tasks
    /\ task[t].pc = "df_check"
    /\ LET r == task[t]
           files == FolderFiles(fs, GroupOf(t), r.folder)
           local == LocalName(FileIdOf(t), ExtOf(r))
           call == [r EXCEPT !.nget = 0, !.slept = <<>>]
       IN  IF local \in DOMAIN files /\ files[local].size > 0
           THEN /\ task' = [task EXCEPT ![t] = AfterFile(call, TRUE)]
                /\ fs' = fs
           ELSE /\ task' = [task EXCEPT ![t] = [call EXCEPT !.pc = "df_get",
                                                            !.attempt = 1]]
                /\ fs' = makedirs(fs, GroupOf(t), r.folder)
    /\ UNCHANGED <<inputs, denied, main_unchanged>>
    /\ Completion(t)

\* download_file without the test for 403 and 404: raise_for_status turns
\* them into an HTTPError, which is retried like any other status
RequestRetriesStatus(t) ==
    /\ t \in Tasks
    /\ task[t].pc = "df_get"
    /\ LET r == [task[t] EXCEPT
                    !.nreq = @ + 1,
                    !.nget = @ + 1,
                    !.reqs = IF task[t].stage = 0 THEN @
                             ELSE Append(@, [ext |-> task[t].stage,
                                             url |-> CompanionUrl(PairOf(t).vid,
                                                                  video_extensions,
                                                                  task[t].stage)])]
           resp == Response(KindFor(t), r.attempt)
           g == GroupOf(t)
       IN  CASE resp \in {"notfound", "error"} ->
                  /\ task' = [task EXCEPT ![t] = AfterError(r)]
                  /\ fs' = IF HasFolder(fs, g, r.folder)
                           THEN SetFolder(fs, g, r.folder,
                                          Cleanup(fs[g][r.folder], FileIdOf(t), ExtOf(r)))
                           ELSE fs
             [] OTHER ->
                  /\ task' = [task EXCEPT ![t] = [r EXCEPT !.pc = "df_open",
                                                          !.resp = resp]]
                  /\ fs' = fs
    /\ UNCHANGED <<inputs, denied, main_unchanged>>
    /\ Completion(t)

\* download_file: session.get, the status checks and, for a failed attempt,
\* the except branch
Request(t) ==
    /\ t \in Tasks
    /\ task[t].pc = "df_get"
    /\ LET r == [task[t] EXCEPT
                    !.nreq = @ + 1,
                    !.nget = @ + 1,
                    !.reqs = IF task[t].stage = 0 THEN @
                             ELSE Append(@, [ext |-> task[t].stage,
                                             url |-> CompanionUrl(PairOf(t).vid,
                                                                  video_extensions,
                                                                  task[t].stage)])]
           resp == Response(KindFor(t), r.attempt)
           g == GroupOf(t)
       IN  CASE resp = "notfound" ->
                  /\ task' = [task EXCEPT ![t] = AfterFile(r, FALSE)]
                  /\ fs' = fs
             [] resp = "error" ->
                  /\ task' = [task EXCEPT ![t] = AfterError(r)]
                  /\ fs' = IF HasFolder(fs, g, r.folder)
                           THEN SetFolder(fs, g, r.folder,
                                          Cleanup(fs[g][r.folder], FileIdOf(t), ExtOf(r)))
                           ELSE fs
             [] OTHER ->
                  /\ task' = [task EXCEPT ![t] = [r EXCEPT !.pc = "df_open",
                                                          !.resp = resp]]
                  /\ fs' = fs
    /\ UNCHANGED <<inputs, denied, main_unchanged>>
    /\ Completion(t)

\* download_file: open(temp_path, "wb")
OpenTemp(t) ==
    /\ t \in Tasks
    /\ task[t].pc = "df_open"
    /\ LET r == task[t]
           g == GroupOf(t)
           tmp == TempName(FileIdOf(t), ExtOf(r))
       IN  IF ~HasFolder(fs, g, r.folder)
           THEN /\ task' = [task EXCEPT ![t] = Raise(r)]
                /\ fs' = fs
           ELSE LET files == fs[g][r.folder]
                    old == IF tmp \in DOMAIN files THEN files[tmp].wr ELSE {}
                IN  /\ task' = [task EXCEPT ![t].pc = "df_write", ![t].off = 0]
                    /\ fs' = SetFolder(fs, g, r.folder,
                                       Put(files, tmp, [size |-> 0, wr |-> old \cup {t}]))
    /\ UNCHANGED <<inputs, denied, main_unchanged>>
    /\ Completion(t)

\* download_file: one turn of the iter_content loop, or its end
WriteTemp(t) ==
    /\ t \in Tasks
    /\ task[t].pc = "df_write"
    /\ LET r == task[t]
           g == GroupOf(t)
           files == FolderFiles(fs, g, r.folder)
           put(fl) == IF HasFolder(fs, g, r.folder)
                      THEN SetFolder(fs, g, r.folder, fl) ELSE fs
       IN  CASE r.resp = "ok" /\ r.off < BodyChunks - 1 ->
                  /\ task' = [task EXCEPT ![t].off = @ + 1]
                  /\ fs' = put(WriteChunk(files, t, r.off + 1))
             [] r.resp = "ok" /\ r.off >= BodyChunks - 1 ->
                  /\ task' = [task EXCEPT ![t].off = @ + 1, ![t].pc = "df_size"]
                  /\ fs' = put(CloseFile(WriteChunk(files, t, r.off + 1), t))
             [] r.resp = "empty" ->
                  /\ task' = [task EXCEPT ![t].pc = "df_size"]
                  /\ fs' = put(CloseFile(files, t))
             [] r.resp = "abort" /\ r.off = 0 ->
                  /\ task' = [task EXCEPT ![t].off = 1]
                  /\ fs' = put(WriteChunk(files, t, 1))
             [] OTHER ->
                  /\ task' = [task EXCEPT ![t] = AfterError(r)]
                  /\ fs' = put(Cleanup(CloseFile(files, t), FileIdOf(t), ExtOf(r)))
    /\ UNCHANGED <<inputs, denied, main_unchanged>>
    /\ Completion(t)

\* download_file: os.path.getsize(temp_path)
SizeTemp(t) ==
    /\ t \in Tasks
    /\ task[t].pc = "df_size"
    /\ LET r == task[t]
           files == FolderFiles(fs, GroupOf(t), r.folder)
           tmp == TempName(FileIdOf(t), ExtOf(r))
       IN  task' = [task EXCEPT ![t] =
                      IF tmp \notin DOMAIN files THEN Raise(r)
                      ELSE IF files[tmp].size > 0 THEN [r EXCEPT !.pc = "df_replace"]
                      ELSE [r EXCEPT !.pc = "df_remove"]]
    /\ UNCHANGED <<inputs, fs, denied, main_unchanged>>
    /\ Completion(t)

\* os.replace(temp_path, local_path)
os_replace(files, tmp, local) == Drop(Put(files, local, files[tmp]), tmp)

\* download_file: os.replace(temp_path, local_path); return True.  Where
\* another handle is open on the temporary file the call succeeds (POSIX)
\* or raises PermissionError (Windows).
ReplaceTemp(t) ==
    /\ t \in Tasks
    /\ task[t].pc = "df_replace"
    /\ LET r == task[t]
           g == GroupOf(t)
           files == FolderFiles(fs, g, r.folder)
           tmp == TempName(FileIdOf(t), ExtOf(r))
           local == LocalName(FileIdOf(t), ExtOf(r))
       IN  IF tmp \notin DOMAIN files
           THEN /\ task' = [task EXCEPT ![t] = Raise(r)]
                /\ fs' = fs
           ELSE \/ /\ task' = [task EXCEPT ![t] = AfterFile(r, TRUE)]
                   /\ fs' = SetFolder(fs, g, r.folder, os_replace(files, tmp, local))
                \/ /\ files[tmp].wr # {}
                   /\ task' = [task EXCEPT ![t] = Raise(r)]
                   /\ fs' = fs
    /\ UNCHANGED <<inputs, denied, main_unchanged>>
    /\ Completion(t)

\* download_file returning False for an empty body without os.remove
RemoveTempKeepsFile(t) ==
    /\ t \in Tasks
    /\ task[t].pc = "df_remove"
    /\ task' = [task EXCEPT ![t] = AfterFile(task[t], FALSE)]
    /\ UNCHANGED <<inputs, fs, denied, main_unchanged>>
    /\ Completion(t)

\* download_file: os.remove(temp_path) of an empty body; return False
RemoveTemp(t) ==
    /\ t \in Tasks
    /\ task[t].pc = "df_remove"
    /\ LET r == task[t]
           g == GroupOf(t)
           files == FolderFiles(fs, g, r.folder)
           tmp == TempName(FileIdOf(t), ExtOf(r))
       IN  IF tmp \notin DOMAIN files
           THEN /\ task' = [task EXCEPT ![t] = Raise(r)]
                /\ fs' = fs
           ELSE /\ task' = [task EXCEPT ![t] = AfterFile(r, FALSE)]
                /\ fs' = SetFolder(fs, g, r.folder, Drop(files, tmp))
    /\ UNCHANGED <<inputs, denied, main_unchanged>>
    /\ Completion(t)

\* shutil.rmtree(folder, ignore_errors=True): the folder goes, or the
\* deletion fails part-way and what is left of the folder stays
rmtree(f, g, e) ==
    {RmFolder(f, g, e)} \cup
    {SetFolder(f, g, e, [n \in keep |-> f[g][e][n]]) :
        keep \in IF HasFolder(f, g, e) THEN SUBSET DOMAIN f[g][e] ELSE {}}

\* download_pair with immediate_dehydrate: dehydrate_single_file(pdf_path)
\* if pdf_ok and os.path.exists(pdf_path).  hooked lists the files the
\* hook was called for.
HookPdf(t) ==
    /\ t \in Tasks
    /\ task[t].pc = "dp_hook_pdf"
    /\ LET there == LocalName(FileIdOf(t), "pdf")
                       \in DOMAIN FolderFiles(fs, GroupOf(t), task[t].folder)
       IN  task' = [task EXCEPT ![t].pc = "dp_hook_vid",
                                ![t].hooked = IF task[t].pdf_ok /\ there
                                              THEN Append(@, "pdf") ELSE @]
    /\ UNCHANGED <<inputs, fs, denied, main_unchanged>>
    /\ Completion(t)

\* download_pair with immediate_dehydrate: dehydrate_single_file of
\* actual_vid_path if it exists, then the return
HookVid(t) ==
    /\ t \in Tasks
    /\ task[t].pc = "dp_hook_vid"
    /\ LET there == LocalName(FileIdOf(t), ExtOf(task[t]))
                       \in DOMAIN FolderFiles(fs, GroupOf(t), task[t].folder)
       IN  task' = [task EXCEPT ![t].pc = "done",
                                ![t].ret = Returned(task[t].pdf_ok, TRUE),
                                ![t].hooked = IF there THEN Append(@, ExtOf(task[t]))
                                              ELSE @]
    /\ UNCHANGED <<inputs, fs, denied, main_unchanged>>
    /\ Completion(t)

\* RemoveFolder that keeps the folder of a pair whose PDF was retrieved
RemoveFolderUnlessPdf(t) ==
    /\ t \in Tasks
    /\ task[t].pc = "dp_rmtree"
    /\ fs' \in IF task[t].pdf_ok THEN {fs} ELSE rmtree(fs, GroupOf(t), task[t].folder)
    /\ task' = [task EXCEPT ![t].pc = "done", ![t].ret = Returned(FALSE, FALSE),
                            ![t].rmfail = ~task[t].pdf_ok
                                          /\ HasFolder(fs', GroupOf(t), task[t].folder)]
    /\ UNCHANGED <<inputs, denied, main_unchanged>>
    /\ Completion(t)

\* RemoveFolder that reports the outcome of the PDF download
RemoveFolderReportsPdf(t) ==
    /\ t \in Tasks
    /\ task[t].pc = "dp_rmtree"
    /\ fs' \in rmtree(fs, GroupOf(t), task[t].folder)
    /\ task' = [task EXCEPT ![t].pc = "done", ![t].ret = Returned(task[t].pdf_ok, FALSE),
                            ![t].rmfail = HasFolder(fs', GroupOf(t), task[t].folder)]
    /\ UNCHANGED <<inputs, denied, main_unchanged>>
    /\ Completion(t)

\* download_pair: no companion was retrieved.  rmfail records that rmtree
\* met an error (which it ignores) and left the folder behind.
RemoveFolder(t) ==
    /\ t \in Tasks
    /\ task[t].pc = "dp_rmtree"
    /\ fs' \in rmtree(fs, GroupOf(t), task[t].folder)
    /\ task' = [task EXCEPT ![t].pc = "done", ![t].ret = Returned(FALSE, FALSE),
                            ![t].rmfail = HasFolder(fs', GroupOf(t), task[t].folder)]
    /\ UNCHANGED <<inputs, denied, main_unchanged>>
    /\ Completion(t)

(***************************************************************************)
(* 4.4 Progress ledger                                                     *)
(***************************************************************************)
NoProgressFile == [kind |-> "absent", completed |-> {}]

CorruptProgressFile == [kind |-> "corrupt", completed |-> {}]

\* a file that json.load reads but that is not an object (a list, null, a
\* number), or a file whose bytes are not text: load_progress raises
\* AttributeError or UnicodeDecodeError, which its except clause does not name
MisshapenProgressFile == [kind |-> "misshapen", completed |-> {}]

\* the file save_progress(completed_set) writes
save_progress(completed_set) == [kind |-> "valid", completed |-> completed_set]

\* set() when the file is absent or is not JSON
load_progress(file) == IF file.kind = "valid" THEN file.completed ELSE {}

\* load_progress: the exception leaves the function
load_progress_raises(file) == file.kind = "misshapen"

\* folder_exists_for_pair that answers False when the listing is refused
folder_exists_listed(pdf_url, f, den) ==
    LET group == parse_url_info(pdf_url)[1]
        file_id == parse_url_info(pdf_url)[2]
    IN  /\ isdir(f, group)
        /\ group \notin den
        /\ \E entry \in listdir(f, group) : Matches(entry, file_id)

\* folder_exists_for_pair whose except branch returns False
folder_exists_pessimistic(pdf_url, f, den) ==
    LET group == parse_url_info(pdf_url)[1]
        file_id == parse_url_info(pdf_url)[2]
    IN  IF ~isdir(f, group) THEN FALSE
        ELSE IF group \in den THEN FALSE
        ELSE \E entry \in listdir(f, group) : Matches(entry, file_id)

folder_exists_for_pair(pdf_url, f, den) ==
    LET group == parse_url_info(pdf_url)[1]
        file_id == parse_url_info(pdf_url)[2]
    IN  IF ~isdir(f, group) THEN FALSE
        ELSE IF group \in den THEN TRUE
        ELSE \E entry \in listdir(f, group) : Matches(entry, file_id)

\* find_skipped_pairs of retry_skipped.py
find_skipped_pairs(ps, f, den) ==
    SelectSeq(ps, LAMBDA p : ~folder_exists_for_pair(p.pdf, f, den))

\* Reconcile that makes the ledger follow the disk: the key of a pair
\* without a folder is dropped
RECURSIVE ReconcileFromDisk(_, _, _, _, _)
ReconcileFromDisk(ps, rem, comp, f, den) ==
    IF ps = <<>> THEN <<rem, comp>>
    ELSE LET p == Head(ps)
             key == pair_key(p.pdf)
         IN  IF folder_exists_for_pair(p.pdf, f, den)
             THEN ReconcileFromDisk(Tail(ps), rem, comp \cup {key}, f, den)
             ELSE ReconcileFromDisk(Tail(ps), Append(rem, p), comp \ {key}, f, den)

\* main(): the loop that skips pairs in the progress file or with a folder
\* on disk; the result is the pair <<remaining, completed>>
RECURSIVE Reconcile(_, _, _, _, _)
Reconcile(ps, rem, comp, f, den) ==
    IF ps = <<>> THEN <<rem, comp>>
    ELSE LET p == Head(ps)
             key == pair_key(p.pdf)
         IN  IF key \in comp
             THEN Reconcile(Tail(ps), rem, comp, f, den)
             ELSE IF folder_exists_for_pair(p.pdf, f, den)
             THEN Reconcile(Tail(ps), rem, comp \cup {key}, f, den)
             ELSE Reconcile(Tail(ps), Append(rem, p), comp, f, den)

(***************************************************************************)
(* 4.5 Dispatcher: main() of the downloader, phase 3                       *)
(***************************************************************************)
worker_unchanged == <<fs, denied>>

\* completed = load_progress() and the force / skip branches
LoadAndReconcile ==
    /\ mainpc = "start"
    /\ tool = "downloader"
    /\ LET loaded == load_progress(progress_file)
           rec == Reconcile(pairs, <<>>, loaded, fs, denied)
           rem == IF force THEN pairs ELSE rec[1]
           comp == IF force THEN {} ELSE rec[2]
       IN  IF load_progress_raises(progress_file)
           THEN /\ remaining' = <<>>
                /\ completed' = {}
                /\ progress_file' = progress_file
                /\ mainpc' = "raised"
                /\ hist' = [hist EXCEPT !.loaded = {}, !.ledger = {}, !.fs = fs]
           ELSE /\ remaining' = rem
                /\ completed' = comp
                /\ progress_file' =
                      IF force THEN save_progress(comp)
                      ELSE IF Cardinality(comp) > Cardinality(load_progress(progress_file))
                      THEN save_progress(comp)
                      ELSE progress_file
                /\ mainpc' = IF rem = <<>> THEN "done" ELSE "submit"
                /\ hist' = [hist EXCEPT !.loaded = loaded, !.ledger = comp, !.fs = fs]
    /\ UNCHANGED <<inputs, worker_unchanged, nsub, i, succeeded, failed, task,
                   finished>>

\* executor.submit(download_pair, ...) for the next pair of remaining
Submit ==
    /\ mainpc = "submit"
    /\ nsub < Len(remaining)
    /\ task' = Append(task, Queued)
    /\ nsub' = nsub + 1
    /\ mainpc' = IF nsub + 1 = Len(remaining) THEN "collect" ELSE "submit"
    /\ UNCHANGED <<inputs, worker_unchanged, progress_file, completed, remaining,
                   i, succeeded, failed, finished, hist>>

\* Collect without the try/except around future.result()
CollectUncaught(t) ==
    /\ mainpc = "collect"
    /\ finished # <<>>
    /\ t = Head(finished)
    /\ finished' = Tail(finished)
    /\ LET ret == task[t].ret
           ok == ret.pdf_ok \/ ret.vid_ok
           comp == IF ok THEN completed \cup {<<GroupOf(t), FileIdOf(t)>>}
                   ELSE completed
       IN  IF ret.st = "exc"
           THEN /\ mainpc' = "crashed"
                /\ UNCHANGED <<completed, succeeded, failed, i, progress_file>>
           ELSE /\ completed' = comp
                /\ succeeded' = IF ok THEN succeeded + 1 ELSE succeeded
                /\ failed' = IF ok THEN failed ELSE failed + 1
                /\ i' = i + 1
                /\ progress_file' = IF (i + 1) % save_every = 0
                                    THEN save_progress(comp) ELSE progress_file
                /\ mainpc' = IF i + 1 = Len(task) THEN "save" ELSE "collect"
    /\ task' = [task EXCEPT ![t].pc = "collected"]
    /\ UNCHANGED <<inputs, worker_unchanged, remaining, nsub, hist>>

\* Collect without the save after every save_every-th completion
CollectNoPeriodicSave(t) ==
    /\ mainpc = "collect"
    /\ finished # <<>>
    /\ t = Head(finished)
    /\ finished' = Tail(finished)
    /\ LET ret == task[t].ret
           ok == ret.st = "ret" /\ (ret.pdf_ok \/ ret.vid_ok)
       IN  /\ completed' = IF ok THEN completed \cup {<<GroupOf(t), FileIdOf(t)>>}
                           ELSE completed
           /\ succeeded' = IF ok THEN succeeded + 1 ELSE succeeded
           /\ failed' = IF ok THEN failed ELSE failed + 1
           /\ i' = i + 1
           /\ mainpc' = IF i + 1 = Len(task) THEN "save" ELSE "collect"
    /\ task' = [task EXCEPT ![t].pc = "collected"]
    /\ UNCHANGED <<inputs, worker_unchanged, progress_file, remaining, nsub, hist>>

\* Collect that takes a pair for done only when both files were retrieved
CollectBothOk(t) ==
    /\ mainpc = "collect"
    /\ finished # <<>>
    /\ t = Head(finished)
    /\ finished' = Tail(finished)
    /\ LET ret == task[t].ret
           ok == ret.st = "ret" /\ ret.pdf_ok /\ ret.vid_ok
           comp == IF ok THEN completed \cup {<<GroupOf(t), FileIdOf(t)>>}
                   ELSE completed
       IN  /\ completed' = comp
           /\ succeeded' = IF ok THEN succeeded + 1 ELSE succeeded
           /\ failed' = IF ok THEN failed ELSE failed + 1
           /\ i' = i + 1
           /\ progress_file' = IF (i + 1) % save_every = 0 THEN save_progress(comp)
                               ELSE progress_file
           /\ mainpc' = IF i + 1 = Len(task) THEN "save" ELSE "collect"
    /\ task' = [task EXCEPT ![t].pc = "collected"]
    /\ UNCHANGED <<inputs, worker_unchanged, remaining, nsub, hist>>

\* one turn of the as_completed loop, for the finished future t.  The
\* futures are yielded in the order in which they finished.
Collect(t) ==
    /\ mainpc = "collect"
    /\ finished # <<>>
    /\ t = Head(finished)
    /\ finished' = Tail(finished)
    /\ LET ret == task[t].ret
           ok == ret.st = "ret" /\ (ret.pdf_ok \/ ret.vid_ok)
           comp == IF ok THEN completed \cup {<<GroupOf(t), FileIdOf(t)>>}
                   ELSE completed
       IN  /\ completed' = comp
           /\ succeeded' = IF ok THEN succeeded + 1 ELSE succeeded
           /\ failed' = IF ok THEN failed ELSE failed + 1
           /\ i' = i + 1
           /\ progress_file' = IF (i + 1) % save_every = 0 THEN save_progress(comp)
                               ELSE progress_file
           /\ mainpc' = IF i + 1 = Len(task) THEN "save" ELSE "collect"
    /\ task' = [task EXCEPT ![t].pc = "collected"]
    /\ UNCHANGED <<inputs, worker_unchanged, remaining, nsub, hist>>

\* save_progress(completed) after the pool has shut down
FinalSave ==
    /\ mainpc = "save"
    /\ progress_file' = save_progress(completed)
    /\ mainpc' = "done"
    /\ UNCHANGED <<inputs, worker_unchanged, completed, remaining, nsub, i,
                   succeeded, failed, task, finished, hist>>

(***************************************************************************)
(* progress_lock: which accesses to the ledger are made while it is held   *)
(***************************************************************************)
\* an access to the completed set or to the progress file, and whether it
\* is made inside "with progress_lock:"
Access(obj, op, locked) == [obj |-> obj, op |-> op, locked |-> locked]

\* save_progress: sorted(completed_set) and the write, both inside the lock
SaveAccesses ==
    {Access("completed", "read", TRUE), Access("progress_file", "write", TRUE)}

\* load_progress: the read of the file, no lock taken
LoadAccesses == {Access("progress_file", "read", FALSE)}

\* main before the pool starts: load_progress, then completed.clear() and
\* save_progress under --force, else the pass over the pairs
\* ("pair_key in completed", completed.add) and the save when it grew
ReconcileAccesses ==
    LET loaded == load_progress(progress_file)
        rec == Reconcile(pairs, <<>>, loaded, fs, denied)
    IN  LoadAccesses \cup
        IF load_progress_raises(progress_file) THEN {}
        ELSE IF force
        THEN {Access("completed", "write", FALSE)} \cup SaveAccesses
        ELSE {Access("completed", "read", FALSE)}
             \cup (IF rec[2] # loaded THEN {Access("completed", "write", FALSE)}
                   ELSE {})
             \cup LoadAccesses
             \cup (IF Cardinality(rec[2]) > Cardinality(loaded) THEN SaveAccesses
                   ELSE {})

\* CollectAccesses with completed.add outside the lock
CollectAccessesUnlocked(t) ==
    (IF task[t].ret.st = "ret" /\ (task[t].ret.pdf_ok \/ task[t].ret.vid_ok)
     THEN {Access("completed", "write", FALSE)} ELSE {})
    \cup (IF (i + 1) % save_every = 0 THEN SaveAccesses ELSE {})

\* one turn of the as_completed loop: completed.add inside the lock, and
\* save_progress after every save_every-th completion
CollectAccesses(t) ==
    (IF task[t].ret.st = "ret" /\ (task[t].ret.pdf_ok \/ task[t].ret.vid_ok)
     THEN {Access("completed", "write", TRUE)} ELSE {})
    \cup (IF (i + 1) % save_every = 0 THEN SaveAccesses ELSE {})

\* the accesses made by the step of the dispatcher thread that is taken
StepAccesses ==
    IF tool = "downloader" /\ mainpc = "start" /\ mainpc' # "start"
    THEN ReconcileAccesses
    ELSE IF mainpc = "collect" /\ i' = i + 1 THEN CollectAccesses(Head(finished))
    ELSE IF mainpc = "save" /\ mainpc' = "done" THEN SaveAccesses
    ELSE {}

(***************************************************************************)
(* main() of retry_skipped.py and consecutive runs of the tools            *)
(***************************************************************************)
\* RetryLoad that leaves the progress file alone
RetryLoadKeepingLedger ==
    /\ mainpc = "start"
    /\ tool = "retry"
    /\ LET skipped == find_skipped_pairs(pairs, fs, denied)
           loaded == load_progress(progress_file)
       IN  /\ remaining' = IF dry_run THEN <<>> ELSE skipped
           /\ completed' = IF skipped = <<>> THEN {} ELSE loaded
           /\ mainpc' = IF skipped = <<>> \/ dry_run THEN "done" ELSE "submit"
           /\ hist' = [hist EXCEPT !.loaded = loaded, !.ledger = completed', !.fs = fs]
    /\ UNCHANGED <<inputs, worker_unchanged, progress_file, nsub, i, succeeded,
                   failed, task, finished>>

\* phase 2 of the retry tool, the clearing of the progress file and the
\* dry-run return.  remaining is the list the tool dispatches (skipped).
RetryLoad ==
    /\ mainpc = "start"
    /\ tool = "retry"
    /\ LET skipped == find_skipped_pairs(pairs, fs, denied)
           loaded == load_progress(progress_file)
           comp == loaded \ {pair_key(skipped[j].pdf) : j \in DOMAIN skipped}
       IN  IF skipped = <<>>
           THEN /\ remaining' = <<>>
                /\ completed' = {}
                /\ progress_file' = progress_file
                /\ mainpc' = "done"
                /\ hist' = [hist EXCEPT !.loaded = loaded, !.ledger = {}, !.fs = fs]
           ELSE IF load_progress_raises(progress_file)
           THEN /\ remaining' = <<>>
                /\ completed' = {}
                /\ progress_file' = progress_file
                /\ mainpc' = "raised"
                /\ hist' = [hist EXCEPT !.loaded = {}, !.ledger = {}, !.fs = fs]
           ELSE /\ remaining' = IF dry_run THEN <<>> ELSE skipped
                /\ completed' = comp
                /\ progress_file' = IF comp # loaded THEN save_progress(comp)
                                    ELSE progress_file
                /\ mainpc' = IF dry_run THEN "done" ELSE "submit"
                /\ hist' = [hist EXCEPT !.loaded = loaded, !.ledger = comp, !.fs = fs]
    /\ UNCHANGED <<inputs, worker_unchanged, nsub, i, succeeded, failed, task,
                   finished>>

\* the tool has returned and the user starts the downloader or the retry
\* tool again, on the same list and the same output directory
NextRun ==
    /\ mainpc \in {"done", "raised"}
    /\ tool \in {"downloader", "retry"}
    /\ runs < MaxRuns
    /\ runs' = runs + 1
    /\ \E tl \in {"downloader", "retry"}, flag \in BOOLEAN :
          /\ tool' = tl
          /\ force' = (tl = "downloader" /\ flag)
          /\ dry_run' = (tl = "retry" /\ flag)
    /\ mainpc' = "start"
    /\ completed' = {}
    /\ remaining' = <<>>
    /\ nsub' = 0
    /\ i' = 0
    /\ succeeded' = 0
    /\ failed' = 0
    /\ task' = <<>>
    /\ finished' = <<>>
    /\ hist' = [hist EXCEPT !.prev = [t \in Tasks |->
                                           [pair |-> remaining[t], ret |-> task[t].ret]],
                             !.prevtool = tool]
    /\ UNCHANGED <<pairs, video_extensions, server, workers, worker_unchanged,
                   progress_file, url_text, identity, progress_text,
                   immediate_dehydrate, removed>>

\* download_pair is called directly, once more on the same pair
Call ==
    /\ tool = "pair"
    /\ Len(task) < MaxCalls
    /\ \A t \in Tasks : task[t].pc = "done"
    /\ task' = Append(task, [Queued EXCEPT !.pc = "dp_list"])
    /\ remaining' = Append(remaining, pairs[1])
    /\ hist' = [hist EXCEPT !.fs = fs]
    /\ UNCHANGED <<inputs, worker_unchanged, progress_file, completed, mainpc, nsub,
                   i, succeeded, failed, finished>>

(***************************************************************************)
(* The runs explored                                                       *)
(***************************************************************************)
\* a primary URL .../DataSet 1/<stem>.pdf on www.justice.gov
PdfUrl(stem) == [dataset |-> "1", host |-> <<"www", "justice", "gov">>, stem |-> stem]

\* a companion URL https://www.justice.gov/<path>.<ext>
VidUrl(path, ext) == <<"https://www", "justice", path, ext>>

pA == [pdf |-> PdfUrl(<<"A">>), vid |-> VidUrl("gov/A", "mov")]

pAB == [pdf |-> PdfUrl(<<"A", "B">>), vid |-> VidUrl("gov/A - B", "mov")]

pC == [pdf |-> PdfUrl(<<"C">>), vid |-> VidUrl("gov/C", "mov")]

pX == [pdf |-> PdfUrl(<<"X?">>), vid |-> VidUrl("gov/X?", "mov")]

DataSet1 == <<"DataSet", "1">>

KeyA == <<DataSet1, <<"A">>>>

KeyAB == <<DataSet1, <<"A", "B">>>>

KeyC == <<DataSet1, <<"C">>>>

\* the answers of the site in the dispatcher runs: A has no companion, A - B
\* is served whole, C has a flaky PDF and an .mp4 companion
Site1 ==
    [pdf |-> (pA.pdf :> "ok") @@ (pAB.pdf :> "ok") @@ (pC.pdf :> "flaky")
             @@ (pX.pdf :> "ok"),
     vid |-> (VidUrl("gov/A", "mov") :> "notfound")
             @@ (VidUrl("gov/A", "mp4") :> "notfound")
             @@ (VidUrl("gov/A - B", "mov") :> "ok")
             @@ (VidUrl("gov/C", "mov") :> "notfound")
             @@ (VidUrl("gov/C", "mp4") :> "ok")
             @@ (VidUrl("gov/X?", "mov") :> "ok")]

\* A: stream aborted, then an empty body; A - B: only the .mp4 companion
Site2 ==
    [pdf |-> (pA.pdf :> "ok") @@ (pAB.pdf :> "notfound") @@ (pC.pdf :> "ok")
             @@ (pX.pdf :> "ok"),
     vid |-> (VidUrl("gov/A", "mov") :> "abort")
             @@ (VidUrl("gov/A", "mp4") :> "empty")
             @@ (VidUrl("gov/A - B", "mov") :> "error")
             @@ (VidUrl("gov/A - B", "mp4") :> "ok")
             @@ (VidUrl("gov/C", "mov") :> "ok")
             @@ (VidUrl("gov/X?", "mov") :> "ok")]

\* a folder of an earlier successful run: the PDF and the .mov companion
DoneFolder(file_id) ==
    (LocalName(file_id, "pdf") :> WholeFile) @@ (LocalName(file_id, "mov") :> WholeFile)

DispatchPairLists ==
    {<<pA, pC>>, <<pAB, pAB>>, <<pA, pAB>>, <<pC, pX, pAB>>}

\* a list long enough for a periodic save: one good pair and save_every
\* pairs whose folder cannot be created
LongPairList == <<pAB>> \o [k \in 1..save_every |-> pX]

\* save_every + 1 item names for a run with a periodic save and a rest
BatchNames ==
    <<"N01", "N02", "N03", "N04", "N05", "N06", "N07", "N08", "N09", "N10",
      "N11", "N12", "N13", "N14", "N15", "N16", "N17", "N18", "N19", "N20",
      "N21", "N22", "N23", "N24", "N25", "N26">>

BatchPair(name) == [pdf |-> PdfUrl(<<name>>), vid |-> VidUrl(name, "mov")]

\* save_every + 1 pairs of distinct identities
BatchPairList == [k \in 1..(save_every + 1) |-> BatchPair(BatchNames[k])]

\* the PDF of a batch pair is not found, its .mov companion is served
SiteBatch ==
    [pdf |-> [u \in {BatchPairList[k].pdf : k \in DOMAIN BatchPairList} |-> "notfound"],
     vid |-> [u \in {BatchPairList[k].vid : k \in DOMAIN BatchPairList} |-> "ok"]]

\* three pairs of distinct identities: M has a .mov companion, J only a
\* .jpg companion, Z none
pM == [pdf |-> PdfUrl(<<"M">>), vid |-> VidUrl("gov/M", "mov")]

pJ == [pdf |-> PdfUrl(<<"J">>), vid |-> VidUrl("gov/J", "mov")]

pZ == [pdf |-> PdfUrl(<<"Z">>), vid |-> VidUrl("gov/Z", "mov")]

EndToEndList == <<pM, pJ, pZ>>

SiteEndToEnd ==
    [pdf |-> (pM.pdf :> "ok") @@ (pJ.pdf :> "ok") @@ (pZ.pdf :> "ok"),
     vid |-> (VidUrl("gov/M", "mov") :> "ok")
             @@ (VidUrl("gov/J", "mov") :> "notfound")
             @@ (VidUrl("gov/J", "mp4") :> "notfound")
             @@ (VidUrl("gov/J", "jpg") :> "ok")
             @@ (VidUrl("gov/Z", "mov") :> "notfound")
             @@ (VidUrl("gov/Z", "mp4") :> "notfound")
             @@ (VidUrl("gov/Z", "jpg") :> "notfound")]

DispatchDisks ==
    {Empty,
     DataSet1 :> (<<"C", "s">> :> DoneFolder(<<"C">>))}

DispatchLedgers == {NoProgressFile, CorruptProgressFile, save_progress({KeyC})}

Init ==
    /\ \/ /\ pairs \in DispatchPairLists
          /\ server \in {Site1, Site2}
          /\ force \in BOOLEAN
          /\ fs \in DispatchDisks
          /\ progress_file \in DispatchLedgers
          /\ workers = NumWorkers
          /\ video_extensions = <<"mov", "mp4">>
       \/ /\ pairs = LongPairList
          /\ workers = 1
          /\ server = Site1
          /\ force = FALSE
          /\ fs = Empty
          /\ progress_file = save_progress({KeyC})
          /\ video_extensions = <<"mov", "mp4">>
       \/ /\ pairs = BatchPairList
          /\ workers = 1
          /\ server = SiteBatch
          /\ force = FALSE
          /\ fs = Empty
          /\ progress_file = save_progress({KeyC})
          /\ video_extensions = <<"mov", "mp4">>
       \/ /\ pairs = EndToEndList
          /\ workers = NumWorkers
          /\ server = SiteEndToEnd
          /\ force = FALSE
          /\ fs = Empty
          /\ progress_file = NoProgressFile
          /\ video_extensions = <<"mov", "mp4", "jpg">>
    /\ tool = "downloader"
    /\ dry_run = FALSE
    /\ runs = 1
    /\ denied = {}
    /\ completed = {}
    /\ remaining = <<>>
    /\ mainpc = "start"
    /\ nsub = 0
    /\ i = 0
    /\ succeeded = 0
    /\ failed = 0
    /\ task = <<>>
    /\ finished = <<>>
    /\ url_text = <<>>
    /\ removed = 0
    /\ immediate_dehydrate = FALSE
    /\ identity = <<>>
    /\ progress_text = <<>>
    /\ hist = [loaded |-> {}, ledger |-> {}, fs |-> fs, prev |-> <<>>, prevtool |-> ""]

Next ==
    \/ LoadAndReconcile
    \/ Submit
    \/ \E t \in Tasks : StartTask(t)
    \/ \E t \in Tasks : ListFolder(t)
    \/ \E t \in Tasks : MakeFolder(t)
    \/ \E t \in Tasks : CheckExists(t)
    \/ \E t \in Tasks : Request(t)
    \/ \E t \in Tasks : OpenTemp(t)
    \/ \E t \in Tasks : WriteTemp(t)
    \/ \E t \in Tasks : SizeTemp(t)
    \/ \E t \in Tasks : ReplaceTemp(t)
    \/ \E t \in Tasks : RemoveTemp(t)
    \/ \E t \in Tasks : RemoveFolder(t)
    \/ \E t \in Tasks : Collect(t)
    \/ FinalSave

Spec == Init /\ [][Next]_vars

\* a run whose threads keep being scheduled: a step that can be taken is
\* taken in the end
SpecFair == Spec /\ WF_vars(Next)

(***************************************************************************)
(* Consecutive download_pair calls on one pair                             *)
(***************************************************************************)
\* the extensions that occur in the URLs and lists explored
Extensions == {"mov", "mp4", "jpg", "avi"}

\* a URL without the extension of its last path segment
StripExtension(url) ==
    IF url[Len(url)] \in Extensions THEN SubSeq(url, 1, Len(url) - 1) ELSE url

\* a companion URL whose last path segment has no extension
pN == [pdf |-> PdfUrl(<<"N">>), vid |-> <<"https://www", "justice", "gov/N">>]

\* a companion URL whose extension is not the first of the list
pD == [pdf |-> PdfUrl(<<"D">>), vid |-> VidUrl("gov/D", "avi")]

ServesMov == [x \in Extensions |-> IF x = "mov" THEN "ok" ELSE "notfound"]

ServesMp4 ==
    [x \in Extensions |-> IF x \in {"mp4", "jpg"} THEN "ok" ELSE "notfound"]

ServesJpg ==
    [x \in Extensions |->
        CASE x = "mp4" -> "error" [] x = "jpg" -> "flaky" [] OTHER -> "notfound"]

ServesNone ==
    [x \in Extensions |->
        CASE x = "mov" -> "notfound" [] x = "mp4" -> "empty" [] x = "jpg" -> "abort"
          [] OTHER -> "error"]

\* a site that answers pk for the PDF of p and kinds[x] for <item>.<x>; the
\* extensionless URL itself is not found
PairSite(p, pk, kinds) ==
    [pdf |-> (p.pdf :> pk),
     vid |-> [u \in {p.vid} \cup {Append(StripExtension(p.vid), x) : x \in Extensions} |->
                 IF u[Len(u)] \in Extensions THEN kinds[u[Len(u)]] ELSE "notfound"]]

PdfOnly(file_id) == LocalName(file_id, "pdf") :> WholeFile

PdfAndMp4(file_id) ==
    (LocalName(file_id, "pdf") :> WholeFile) @@ (LocalName(file_id, "mp4") :> WholeFile)

PairDisks(p) ==
    LET id == parse_url_info(p.pdf)[2]
    IN  {Empty,
         DataSet1 :> (id :> PdfOnly(id)),
         DataSet1 :> (Append(id, "s") :> PdfAndMp4(id)),
         DataSet1 :> ((id :> PdfOnly(id)) @@ (Append(id, "s") :> PdfAndMp4(id)))}

ExtensionLists ==
    {<<"mov", "mp4", "jpg">>, <<"mov", "mp4", "mov">>, <<"mov">>, <<>>}

InitPair ==
    /\ \E p \in {pA, pN, pD} :
          /\ pairs = <<p>>
          /\ server \in {PairSite(p, pk, kinds) :
                            pk \in {"ok", "notfound", "flaky", "lapse"},
                            kinds \in {ServesMov, ServesMp4, ServesJpg, ServesNone}}
          /\ fs \in PairDisks(p)
    /\ video_extensions \in ExtensionLists
    /\ denied \in SUBSET (DOMAIN fs)
    /\ force = FALSE
    /\ workers = 1
    /\ tool = "pair"
    /\ dry_run = FALSE
    /\ runs = 1
    /\ progress_file = NoProgressFile
    /\ completed = {}
    /\ remaining = <<>>
    /\ mainpc = "pair"
    /\ nsub = 0
    /\ i = 0
    /\ succeeded = 0
    /\ failed = 0
    /\ task = <<>>
    /\ finished = <<>>
    /\ url_text = <<>>
    /\ removed = 0
    /\ immediate_dehydrate = FALSE
    /\ identity = <<>>
    /\ progress_text = <<>>
    /\ hist = [loaded |-> {}, ledger |-> {}, fs |-> fs, prev |-> <<>>, prevtool |-> ""]

NextPair ==
    \/ Call
    \/ \E t \in Tasks : ListFolder(t)
    \/ \E t \in Tasks : MakeFolder(t)
    \/ \E t \in Tasks : CheckExists(t)
    \/ \E t \in Tasks : Request(t)
    \/ \E t \in Tasks : OpenTemp(t)
    \/ \E t \in Tasks : WriteTemp(t)
    \/ \E t \in Tasks : SizeTemp(t)
    \/ \E t \in Tasks : ReplaceTemp(t)
    \/ \E t \in Tasks : RemoveTemp(t)
    \/ \E t \in Tasks : RemoveFolder(t)

SpecPair == InitPair /\ [][NextPair]_vars

(***************************************************************************)
(* Consecutive runs of the downloader and of the retry tool                *)
(***************************************************************************)
\* a primary URL outside the DataSet scheme
pG ==
    [pdf |-> [dataset |-> "", host |-> <<"www", "example", "com">>, stem |-> <<"G">>],
     vid |-> <<"https://www", "example", "com/G", "mov">>]

KeyG == <<(<<"example", "com">>), <<"G">>>>

SiteTools ==
    [pdf |-> Site2.pdf @@ (pG.pdf :> "ok"), vid |-> Site2.vid @@ (pG.vid :> "ok")]

ToolPairLists == {<<pA, pC>>, <<pA, pG>>, <<pAB, pD>>}

ToolDisks ==
    {Empty,
     DataSet1 :> Empty,
     DataSet1 :> (<<"C", "s">> :> DoneFolder(<<"C">>))}

ToolLedgers ==
    {NoProgressFile, CorruptProgressFile, MisshapenProgressFile, save_progress({KeyA}),
     save_progress({KeyC}), save_progress({KeyA, KeyC})}

InitTools ==
    /\ pairs \in ToolPairLists
    /\ server = SiteTools
    /\ video_extensions = <<"mov", "mp4">>
    /\ fs \in ToolDisks
    /\ denied \in SUBSET (DOMAIN fs)
    /\ progress_file \in ToolLedgers
    /\ \E tl \in {"downloader", "retry"}, flag \in BOOLEAN :
          /\ tool = tl
          /\ force = (tl = "downloader" /\ flag)
          /\ dry_run = (tl = "retry" /\ flag)
    /\ workers = 1
    /\ runs = 1
    /\ completed = {}
    /\ remaining = <<>>
    /\ mainpc = "start"
    /\ nsub = 0
    /\ i = 0
    /\ succeeded = 0
    /\ failed = 0
    /\ task = <<>>
    /\ finished = <<>>
    /\ url_text = <<>>
    /\ removed = 0
    /\ immediate_dehydrate = FALSE
    /\ identity = <<>>
    /\ progress_text = <<>>
    /\ hist = [loaded |-> {}, ledger |-> {}, fs |-> fs, prev |-> <<>>, prevtool |-> ""]

NextTools ==
    \/ LoadAndReconcile
    \/ RetryLoad
    \/ Submit
    \/ \E t \in Tasks : StartTask(t)
    \/ \E t \in Tasks : ListFolder(t)
    \/ \E t \in Tasks : MakeFolder(t)
    \/ \E t \in Tasks : CheckExists(t)
    \/ \E t \in Tasks : Request(t)
    \/ \E t \in Tasks : OpenTemp(t)
    \/ \E t \in Tasks : WriteTemp(t)
    \/ \E t \in Tasks : SizeTemp(t)
    \/ \E t \in Tasks : ReplaceTemp(t)
    \/ \E t \in Tasks : RemoveTemp(t)
    \/ \E t \in Tasks : RemoveFolder(t)
    \/ \E t \in Tasks : Collect(t)
    \/ FinalSave
    \/ NextRun

SpecTools == InitTools /\ [][NextTools]_vars

(***************************************************************************)
(* One run of the downloader with and without --dehydrate                  *)
(***************************************************************************)
HookPairLists == {<<pA, pAB>>, <<pC, pC>>, <<pAB, pC>>}

InitHook ==
    /\ pairs \in HookPairLists
    /\ server \in {Site1, Site2}
    /\ immediate_dehydrate \in BOOLEAN
    /\ video_extensions = <<"mov", "mp4">>
    /\ fs = Empty
    /\ denied = {}
    /\ progress_file = NoProgressFile
    /\ tool = "downloader"
    /\ force = FALSE
    /\ dry_run = FALSE
    /\ workers = NumWorkers
    /\ runs = 1
    /\ completed = {}
    /\ remaining = <<>>
    /\ mainpc = "start"
    /\ nsub = 0
    /\ i = 0
    /\ succeeded = 0
    /\ failed = 0
    /\ task = <<>>
    /\ finished = <<>>
    /\ url_text = <<>>
    /\ removed = 0
    /\ identity = <<>>
    /\ progress_text = <<>>
    /\ hist = [loaded |-> {}, ledger |-> {}, fs |-> fs, prev |-> <<>>, prevtool |-> ""]

NextHook ==
    \/ LoadAndReconcile
    \/ Submit
    \/ \E t \in Tasks : StartTask(t)
    \/ \E t \in Tasks : ListFolder(t)
    \/ \E t \in Tasks : MakeFolder(t)
    \/ \E t \in Tasks : CheckExists(t)
    \/ \E t \in Tasks : Request(t)
    \/ \E t \in Tasks : OpenTemp(t)
    \/ \E t \in Tasks : WriteTemp(t)
    \/ \E t \in Tasks : SizeTemp(t)
    \/ \E t \in Tasks : ReplaceTemp(t)
    \/ \E t \in Tasks : RemoveTemp(t)
    \/ \E t \in Tasks : RemoveFolder(t)
    \/ \E t \in Tasks : HookPdf(t)
    \/ \E t \in Tasks : HookVid(t)
    \/ \E t \in Tasks : Collect(t)
    \/ FinalSave

SpecHook == InitHook /\ [][NextHook]_vars

(***************************************************************************)
(* One run of the retry tool with concurrent workers                       *)
(***************************************************************************)
RetryPairLists == {<<pC, pC>>, <<pA, pC>>, <<pAB, pA>>}

RetryLedgers == {NoProgressFile, save_progress({KeyA, KeyC})}

InitRetry ==
    /\ pairs \in RetryPairLists
    /\ server = Site2
    /\ video_extensions = <<"mov", "mp4">>
    /\ fs \in ToolDisks
    /\ denied = {}
    /\ progress_file \in RetryLedgers
    /\ tool = "retry"
    /\ force = FALSE
    /\ dry_run = FALSE
    /\ workers = NumWorkers
    /\ runs = 1
    /\ completed = {}
    /\ remaining = <<>>
    /\ mainpc = "start"
    /\ nsub = 0
    /\ i = 0
    /\ succeeded = 0
    /\ failed = 0
    /\ task = <<>>
    /\ finished = <<>>
    /\ url_text = <<>>
    /\ removed = 0
    /\ immediate_dehydrate = FALSE
    /\ identity = <<>>
    /\ progress_text = <<>>
    /\ hist = [loaded |-> {}, ledger |-> {}, fs |-> fs, prev |-> <<>>, prevtool |-> ""]

NextRetry ==
    \/ RetryLoad
    \/ Submit
    \/ \E t \in Tasks : StartTask(t)
    \/ \E t \in Tasks : ListFolder(t)
    \/ \E t \in Tasks : MakeFolder(t)
    \/ \E t \in Tasks : CheckExists(t)
    \/ \E t \in Tasks : Request(t)
    \/ \E t \in Tasks : OpenTemp(t)
    \/ \E t \in Tasks : WriteTemp(t)
    \/ \E t \in Tasks : SizeTemp(t)
    \/ \E t \in Tasks : ReplaceTemp(t)
    \/ \E t \in Tasks : RemoveTemp(t)
    \/ \E t \in Tasks : RemoveFolder(t)
    \/ \E t \in Tasks : Collect(t)
    \/ FinalSave

SpecRetry == InitRetry /\ [][NextRetry]_vars

(***************************************************************************)
(* parse_url_info on its own (SpecParse)                                   *)
(***************************************************************************)
Hosts ==
    {<<"host">>,
     <<"example", ".", "com">>,
     <<"www", ".", "example", ".", "com">>,
     <<"www", ".", "justice", ".", "gov">>,
     <<"files", ".", "www", ".", "org">>}

Directories ==
    {<<>>,
     <<"files", "/">>,
     <<"DataSet", " ", "3", "/">>,
     <<"DataSet", "%20", "3", "/">>,
     <<"epstein", "/", "DataSet", "12", "/">>}

FileNames ==
    {<<>>,
     <<"ABC", ".", "pdf">>,
     <<"x", ".", "pdf">>,
     <<"a", "%20", "b", ".", "pdf">>,
     <<"a", "%2F", "b", ".", "pdf">>,
     <<"v1", ".", "2", ".", "pdf">>,
     <<".", "htaccess">>}

Queries ==
    {<<>>,
     <<"?", "v", "=", "1", ".", "2">>,
     <<"?", "u", "=", "x", "/", "y">>,
     <<"#", "p", ".", "2">>}

Urls ==
    {<<"https://">> \o h \o <<"/">> \o d \o f \o q :
        h \in Hosts, d \in Directories, f \in FileNames, q \in Queries}

InitParse ==
    /\ url_text \in Urls
    /\ removed = 0
    /\ immediate_dehydrate = FALSE
    /\ identity = <<>>
    /\ progress_text = <<>>
    /\ pairs = <<>>
    /\ video_extensions = <<>>
    /\ server = [pdf |-> Empty, vid |-> Empty]
    /\ force = FALSE
    /\ workers = 1
    /\ tool = "parse"
    /\ dry_run = FALSE
    /\ runs = 1
    /\ fs = Empty
    /\ denied = {}
    /\ progress_file = NoProgressFile
    /\ completed = {}
    /\ remaining = <<>>
    /\ mainpc = "call"
    /\ nsub = 0
    /\ i = 0
    /\ succeeded = 0
    /\ failed = 0
    /\ task = <<>>
    /\ finished = <<>>
    /\ hist = [loaded |-> {}, ledger |-> {}, fs |-> fs, prev |-> <<>>, prevtool |-> ""]

\* group, file_id = parse_url_info(url)
Parse ==
    /\ tool = "parse"
    /\ mainpc = "call"
    /\ identity' = parse_url_text(url_text)
    /\ mainpc' = "returned"
    /\ UNCHANGED <<pairs, video_extensions, server, force, workers, tool, dry_run,
                   runs, fs, denied, progress_file, completed, remaining, nsub, i,
                   succeeded, failed, task, finished, hist, url_text,
                   progress_text, immediate_dehydrate, removed>>

NextParse == Parse

SpecParse == InitParse /\ [][NextParse]_vars

(***************************************************************************)
(* save_progress and load_progress on the text of the file (SpecLedger)    *)
(***************************************************************************)
KeyX == <<DataSet1, <<"X?">>>>

LedgerKeys == {KeyA, KeyAB, KeyC, KeyX, KeyG}

\* f"{group}/{file_id}", character by character
KeyText(k) ==
    CASE k = KeyA -> <<"D", "a", "t", "a", "S", "e", "t", "_", "1", "/", "A">>
      [] k = KeyAB -> <<"D", "a", "t", "a", "S", "e", "t", "_", "1", "/", "A", " ", "-", " ", "B">>
      [] k = KeyC -> <<"D", "a", "t", "a", "S", "e", "t", "_", "1", "/", "C">>
      [] k = KeyX -> <<"D", "a", "t", "a", "S", "e", "t", "_", "1", "/", "X", "?">>
      [] k = KeyG -> <<"e", "x", "a", "m", "p", "l", "e", "_", "c", "o", "m", "/", "G">>

\* the code points of the characters
ord ==
    (" " :> 32) @@ ("-" :> 45) @@ ("/" :> 47) @@ ("1" :> 49) @@
    ("?" :> 63) @@ ("A" :> 65) @@ ("B" :> 66) @@ ("C" :> 67) @@
    ("D" :> 68) @@ ("G" :> 71) @@ ("S" :> 83) @@ ("X" :> 88) @@
    ("_" :> 95) @@ ("a" :> 97) @@ ("c" :> 99) @@ ("e" :> 101) @@
    ("l" :> 108) @@ ("m" :> 109) @@ ("o" :> 111) @@ ("p" :> 112) @@
    ("t" :> 116) @@ ("x" :> 120)

\* a < b for two Python strings
RECURSIVE StrLess(_, _)
StrLess(a, b) ==
    IF b = <<>> THEN FALSE
    ELSE IF a = <<>> THEN TRUE
    ELSE IF ord[Head(a)] # ord[Head(b)] THEN ord[Head(a)] < ord[Head(b)]
    ELSE StrLess(Tail(a), Tail(b))

\* sorted_list with the greatest string first
RECURSIVE sorted_reversed(_)
sorted_reversed(strings) ==
    IF strings = {} THEN <<>>
    ELSE LET last == CHOOSE x \in strings : \A y \in strings \ {x} : StrLess(y, x)
         IN  <<last>> \o sorted_reversed(strings \ {last})

\* sorted(completed_set)
RECURSIVE sorted_list(_)
sorted_list(strings) ==
    IF strings = {} THEN <<>>
    ELSE LET first == CHOOSE x \in strings : \A y \in strings \ {x} : StrLess(x, y)
         IN  <<first>> \o sorted_list(strings \ {first})

\* json.dump({"completed": sorted(completed_set)}, f)
dump_completed(completed_set) == sorted_list({KeyText(k) : k \in completed_set})

\* set(data.get("completed", []))
load_completed(text) ==
    {CHOOSE k \in LedgerKeys : KeyText(k) = text[j] : j \in DOMAIN text}

InitLedger ==
    /\ completed \in SUBSET LedgerKeys
    /\ \E old \in {{}, {KeyC}, {KeyG, KeyA}} :
          /\ progress_file = IF old = {} THEN NoProgressFile ELSE save_progress(old)
          /\ progress_text = dump_completed(old)
    /\ tool = "ledger"
    /\ mainpc = "call"
    /\ pairs = <<>>
    /\ video_extensions = <<>>
    /\ server = [pdf |-> Empty, vid |-> Empty]
    /\ force = FALSE
    /\ workers = 1
    /\ dry_run = FALSE
    /\ runs = 1
    /\ fs = Empty
    /\ denied = {}
    /\ remaining = <<>>
    /\ nsub = 0
    /\ i = 0
    /\ succeeded = 0
    /\ failed = 0
    /\ task = <<>>
    /\ finished = <<>>
    /\ url_text = <<>>
    /\ removed = 0
    /\ immediate_dehydrate = FALSE
    /\ identity = <<>>
    /\ hist = [loaded |-> {}, ledger |-> completed, fs |-> fs, prev |-> <<>>,
               prevtool |-> ""]

\* save_progress(completed), a first and a second time
SaveProgress ==
    /\ tool = "ledger"
    /\ mainpc \in {"call", "saved"}
    /\ progress_text' = dump_completed(completed)
    /\ progress_file' = save_progress(completed)
    /\ mainpc' = IF mainpc = "call" THEN "saved" ELSE "saved again"
    /\ UNCHANGED <<pairs, video_extensions, server, force, workers, tool, dry_run,
                   runs, fs, denied, completed, remaining, nsub, i, succeeded,
                   failed, task, finished, hist, url_text, identity,
                   immediate_dehydrate, removed>>

\* completed = load_progress()
LoadProgress ==
    /\ tool = "ledger"
    /\ mainpc \in {"call", "saved", "saved again"}
    /\ completed' = IF progress_file.kind = "valid" THEN load_completed(progress_text)
                    ELSE {}
    /\ mainpc' = IF mainpc = "call" THEN "loaded old" ELSE "loaded"
    /\ UNCHANGED <<pairs, video_extensions, server, force, workers, tool, dry_run,
                   runs, fs, denied, progress_file, remaining, nsub, i, succeeded,
                   failed, task, finished, hist, url_text, identity, progress_text,
                   immediate_dehydrate, removed>>

NextLedger == SaveProgress \/ LoadProgress

SpecLedger == InitLedger /\ [][NextLedger]_vars

(***************************************************************************)
(* cleanup_empty_dirs (SpecCleanup)                                        *)
(***************************************************************************)
\* cleanup_empty_dirs that visits a directory before the directories in it
RECURSIVE cleanup_top_down(_, _, _, _)
cleanup_top_down(f, den, todo, n) ==
    IF todo = {} THEN [tree |-> f, removed |-> n]
    ELSE LET g == CHOOSE x \in todo : TRUE
             gone == IF g \in den THEN {}
                     ELSE {e \in DOMAIN f[g] : DOMAIN f[g][e] = {}}
             kept == [e \in DOMAIN f[g] \ gone |-> f[g][e]]
         IN  IF g \notin den /\ DOMAIN f[g] = {}
             THEN cleanup_top_down(Drop(f, g), den, todo \ {g}, n + 1)
             ELSE cleanup_top_down(Put(f, g, kept), den, todo \ {g},
                                   n + Cardinality(gone))

cleanup_parents_first(f, den) == cleanup_top_down(f, den, DOMAIN f, 0)

\* the turns of the loop for the folders of group g: a folder whose
\* listing is empty is removed and counted
RECURSIVE VisitFolders(_, _, _, _)
VisitFolders(f, g, todo, n) ==
    IF todo = {} THEN [tree |-> f, removed |-> n]
    ELSE LET e == CHOOSE x \in todo : TRUE
         IN  IF DOMAIN f[g][e] = {}
             THEN VisitFolders(RmFolder(f, g, e), g, todo \ {e}, n + 1)
             ELSE VisitFolders(f, g, todo \ {e}, n)

\* os.walk(base_dir, topdown=False): the folders of a group come before the
\* group, base_dir comes last and is skipped.  A group whose listing raises
\* PermissionError is not walked: neither it nor its folders are visited.
RECURSIVE VisitGroups(_, _, _, _)
VisitGroups(f, den, todo, n) ==
    IF todo = {} THEN [tree |-> f, removed |-> n]
    ELSE LET g == CHOOSE x \in todo : TRUE
             below == VisitFolders(f, g, DOMAIN f[g], n)
         IN  IF g \in den THEN VisitGroups(f, den, todo \ {g}, n)
             ELSE IF DOMAIN below.tree[g] = {}
             THEN VisitGroups(Drop(below.tree, g), den, todo \ {g}, below.removed + 1)
             ELSE VisitGroups(below.tree, den, todo \ {g}, below.removed)

\* cleanup_empty_dirs(base_dir): the tree it leaves and the count it returns
cleanup_empty_dirs(f, den) ==
    VisitGroups(f, den, DOMAIN f, 0)

DataSet2 == <<"DataSet", "2">>

\* what a group directory may hold before the cleanup
GroupContents ==
    {Empty,
     <<"A">> :> Empty,
     <<"A">> :> DoneFolder(<<"A">>),
     (<<"A">> :> Empty) @@ (<<"C">> :> DoneFolder(<<"C">>)),
     (<<"A">> :> Empty) @@ (<<"C">> :> Empty)}

CleanupDisks ==
    {Empty}
    \cup {g :> c : g \in {DataSet1, DataSet2}, c \in GroupContents}
    \cup {(DataSet1 :> c1) @@ (DataSet2 :> c2) : c1 \in GroupContents, c2 \in GroupContents}

InitCleanup ==
    /\ fs \in CleanupDisks
    /\ denied \in SUBSET (DOMAIN fs)
    /\ removed = 0
    /\ tool = "cleanup"
    /\ mainpc = "call"
    /\ pairs = <<>>
    /\ video_extensions = <<>>
    /\ server = [pdf |-> Empty, vid |-> Empty]
    /\ force = FALSE
    /\ workers = 1
    /\ dry_run = FALSE
    /\ runs = 1
    /\ progress_file = NoProgressFile
    /\ completed = {}
    /\ remaining = <<>>
    /\ nsub = 0
    /\ i = 0
    /\ succeeded = 0
    /\ failed = 0
    /\ task = <<>>
    /\ finished = <<>>
    /\ url_text = <<>>
    /\ identity = <<>>
    /\ progress_text = <<>>
    /\ immediate_dehydrate = FALSE
    /\ hist = [loaded |-> {}, ledger |-> {}, fs |-> fs, prev |-> <<>>, prevtool |-> ""]

\* removed = cleanup_empty_dirs(output_dir)
CleanupEmptyDirs ==
    /\ tool = "cleanup"
    /\ mainpc = "call"
    /\ fs' = cleanup_empty_dirs(fs, denied).tree
    /\ removed' = cleanup_empty_dirs(fs, denied).removed
    /\ mainpc' = "returned"
    /\ UNCHANGED <<pairs, video_extensions, server, force, workers, tool, dry_run,
                   runs, denied, progress_file, completed, remaining, nsub, i,
                   succeeded, failed, task, finished, hist, url_text, identity,
                   progress_text, immediate_dehydrate>>

NextCleanup == CleanupEmptyDirs

SpecCleanup == InitCleanup /\ [][NextCleanup]_vars

(***************************************************************************)
(* Claims                                                                  *)
(***************************************************************************)
FinalPaths ==
    {<<g, e, n>> \in UNION {UNION {{<<g2, e2, n2>> : n2 \in DOMAIN fs[g2][e2]}
                                    : e2 \in DOMAIN fs[g2]} : g2 \in DOMAIN fs} :
        n[3] = ""}

\* C1: in every state of a dispatcher run with more than one worker, also
\* for a pair list in which two pairs resolve to the same identity, a file
\* at a final path <folder>/<itemID>.<ext> is a complete, non-empty body
\* that nobody is still writing.
AtomicVisibility ==
    \A x \in FinalPaths : fs[x[1]][x[2]][x[3]] = WholeFile

\* pairwise distinct identities
DistinctIdentities(ps) ==
    \A j, k \in DOMAIN ps :
        j # k => parse_url_info(ps[j].pdf) # parse_url_info(ps[k].pdf)

\* the folders download_pair may resolve for a pair on disk f
ResolvedFolders(p, f, den) ==
    LET group == parse_url_info(p.pdf)[1]
        file_id == parse_url_info(p.pdf)[2]
        found == IF isdir(f, group) /\ group \notin den
                 THEN {e \in listdir(f, group) : Matches(e, file_id)}
                 ELSE {}
    IN  IF found = {} THEN {file_id} ELSE found

\* download_pair run on its own from disk f retrieves a companion: for some
\* extension the file is already there or the site serves it
IndividuallySucceeds(p, f, den) ==
    LET group == parse_url_info(p.pdf)[1]
        file_id == parse_url_info(p.pdf)[2]
    IN  /\ file_id \notin InvalidIds
        /\ \E k \in 1..Len(video_extensions) :
              \/ \E e \in ResolvedFolders(p, f, den) :
                    LET files == FolderFiles(f, group, e)
                        local == LocalName(file_id, video_extensions[k])
                    IN  local \in DOMAIN files /\ files[local].size > 0
              \/ KindOf(server.vid, CompanionUrl(p.vid, video_extensions, k))
                    \in {"ok", "flaky"}

\* the dispatcher has run and has finished
DispatchFinished == mainpc = "done" /\ remaining # <<>>

\* the result of task t counts as a success in the as_completed loop
TaskOk(t) ==
    task[t].ret.st = "ret" /\ (task[t].ret.pdf_ok \/ task[t].ret.vid_ok)

ExpectedOk == {t \in 1..Len(remaining) : IndividuallySucceeds(remaining[t], hist.fs, denied)}

\* C8: with more than one worker and pairwise distinct identities, for every
\* interleaving the final ledger is the reconciled starting ledger plus
\* exactly the keys of the pairs that succeed individually, and the counts
\* are those of the individual outcomes.
LedgerIndependentOfInterleaving ==
    (DispatchFinished /\ workers > 1 /\ DistinctIdentities(pairs)) =>
        /\ completed = hist.ledger \cup {pair_key(remaining[t].pdf) : t \in ExpectedOk}
        /\ progress_file = save_progress(completed)
        /\ succeeded = Cardinality(ExpectedOk)
        /\ failed = Len(remaining) - Cardinality(ExpectedOk)

\* no identity of the list matches the folder name of another one
Independent(ps) ==
    \A j, k \in DOMAIN ps :
        j # k => \/ parse_url_info(ps[j].pdf)[1] # parse_url_info(ps[k].pdf)[1]
                 \/ ~Matches(parse_url_info(ps[j].pdf)[2], parse_url_info(ps[k].pdf)[2])

\* what holds of C1 and C8: the same statements for lists in which no
\* identity equals or is a " - " prefix of another one
AtomicVisibilityIndependent == Independent(pairs) => AtomicVisibility

LedgerIndependentPairs ==
    Independent(pairs) => LedgerIndependentOfInterleaving

\* the state of the pair at position t of remaining
StatusOf(t) ==
    IF t > Len(task) THEN "unsubmitted"
    ELSE IF task[t].pc = "queued" THEN "pending"
    ELSE IF task[t].pc \in {"done", "collected"}
    THEN (IF TaskOk(t) THEN "completed" ELSE "failed")
    ELSE "in-flight"

StatusMoves ==
    {<<"unsubmitted", "pending">>, <<"pending", "in-flight">>,
     <<"in-flight", "completed">>, <<"in-flight", "failed">>}

InFlight == {t \in Tasks : StatusOf(t) = "in-flight"}

PairStateInvariant ==
    /\ Len(task) = nsub
    /\ nsub <= Len(remaining)
    /\ mainpc \in {"collect", "save"} => nsub = Len(remaining)
    /\ Cardinality(InFlight) <= workers
    /\ succeeded + failed = i
    /\ DispatchFinished =>
          /\ nsub = Len(remaining)
          /\ \A t \in Tasks : task[t].pc = "collected"
          /\ succeeded + failed = Len(remaining)

PairStateStep ==
    /\ Len(task') \in {Len(task), Len(task) + 1}
    /\ \A t \in 1..Len(pairs) :
          \/ StatusOf(t)' = StatusOf(t)
          \/ <<StatusOf(t), StatusOf(t)'>> \in StatusMoves

\* C9: every pair of remaining is submitted exactly once and moves
\* pending -> in-flight -> completed or failed, never back and never from
\* one outcome to the other; at most workerCount pairs are in flight; when
\* the dispatcher has finished, succeeded + failed is the number submitted.
PairStateMachine == []PairStateInvariant /\ [][PairStateStep]_vars

\* a finished run in which all three pairs were dispatched on two workers
\* and both outcomes occurred
PairStateMachineWitness ==
    /\ DispatchFinished
    /\ workers > 1
    /\ Len(task) = 3
    /\ succeeded > 0
    /\ failed > 0

ExceptionIn(t) == task[t].ret.st = "exc"

\* the as_completed turn that collects a future holding an exception
ExceptionCollected ==
    \A t \in Tasks :
        (task[t].pc = "done" /\ ExceptionIn(t) /\ task'[t].pc = "collected") =>
            /\ failed' = failed + 1
            /\ succeeded' = succeeded
            /\ completed' = completed
            /\ (i + 1) % save_every = 0 => progress_file' = save_progress(completed)

ExceptionIsolated ==
    /\ mainpc # "done" => ENABLED Next
    /\ DispatchFinished =>
          /\ \A t \in 1..Len(remaining) :
                t \in Tasks /\ task[t].pc = "collected" /\ task[t].ret.st # "none"
          /\ failed = Cardinality({t \in Tasks : ~TaskOk(t)})
          /\ succeeded = Cardinality({t \in Tasks : TaskOk(t)})
          /\ progress_file = save_progress(completed)

\* C10: an exception raised inside download_pair is caught at the dispatch
\* boundary and counted as exactly one failure; it adds no key to the
\* ledger, every other submitted pair is still executed and collected, and
\* the periodic and the final save of the ledger still happen.
WorkerFaultIsolation == []ExceptionIsolated /\ [][ExceptionCollected]_vars

\* the long run has finished: save_every futures raised, the periodic save
\* happened after the 25th completion, and the good pair is in the ledger
WorkerFaultIsolationWitness ==
    /\ DispatchFinished
    /\ Cardinality({t \in Tasks : ExceptionIn(t)}) = save_every
    /\ i = save_every + 1
    /\ succeeded = 1
    /\ KeyAB \in load_progress(progress_file)

(***************************************************************************)
(* download_pair called directly (SpecPair)                                *)
(***************************************************************************)
\* the call in progress, or the one that ended last
LastCall == Len(task)

\* the last call has left download_pair by a return statement
LastCallReturned ==
    /\ tool = "pair"
    /\ LastCall >= 1
    /\ task[LastCall].pc = "done"
    /\ task[LastCall].ret.st = "ret"

\* every extension of the list fails for pair p from disk f: no companion
\* file is in a folder the call may resolve and the site serves none
EveryExtensionFails(p, f, den) ==
    \A k \in 1..Len(video_extensions) :
        /\ \A e \in ResolvedFolders(p, f, den) :
              LET files == FolderFiles(f, parse_url_info(p.pdf)[1], e)
                  local == LocalName(parse_url_info(p.pdf)[2], video_extensions[k])
              IN  ~(local \in DOMAIN files /\ files[local].size > 0)
        /\ KindOf(server.vid, CompanionUrl(p.vid, video_extensions, k))
              \notin {"ok", "flaky"}

\* the folder the last call resolved is on disk
ResolvedFolderExists ==
    HasFolder(fs, GroupOf(LastCall), task[LastCall].folder)

ProbeUrl(video_url, exts, k) ==
    IF k = 1 THEN video_url ELSE Append(StripExtension(video_url), exts[k])

\* C3: the extensions are probed in list order, the first from the companion
\* URL verbatim and every later one from the URL without its extension plus
\* "." plus the extension; probing stops at the first success, the companion
\* is stored as <itemID>.<ext> of that extension and no later extension is
\* requested.
ProbesInListOrder ==
    \A t \in Tasks :
        LET reqs == task[t].reqs
        IN  /\ \A j \in DOMAIN reqs :
                  reqs[j].url = ProbeUrl(PairOf(t).vid, video_extensions, reqs[j].ext)
            /\ \A j, k \in DOMAIN reqs : j < k => reqs[j].ext <= reqs[k].ext
            /\ (t = LastCall /\ LastCallReturned /\ task[t].ret.vid_ok) =>
                  /\ LocalName(FileIdOf(t), video_extensions[task[t].stage])
                        \in DOMAIN FolderFiles(fs, GroupOf(t), task[t].folder)
                  /\ \A j \in DOMAIN reqs : reqs[j].ext <= task[t].stage

\* the companion URL ends in an extension and the first extension of the
\* list does not occur in it again
PlainProbing ==
    /\ pairs[1].vid[Len(pairs[1].vid)] \in Extensions
    /\ \A k \in 2..Len(video_extensions) : video_extensions[k] # video_extensions[1]

\* what holds of C3: the same statement for such URLs and lists
ProbesInListOrderPlain == PlainProbing => ProbesInListOrder

\* the folder of pair p on disk f is complete: the one entry that matches
\* the identity holds the PDF and a companion under extension k
CompleteUnder(p, f, k) ==
    LET group == parse_url_info(p.pdf)[1]
        file_id == parse_url_info(p.pdf)[2]
    IN  /\ k \in 1..Len(video_extensions)
        /\ \E e \in listdir(f, group) :
              /\ {x \in listdir(f, group) : Matches(x, file_id)} = {e}
              /\ LocalName(file_id, "pdf") \in DOMAIN f[group][e]
              /\ f[group][e][LocalName(file_id, "pdf")].size > 0
              /\ LocalName(file_id, video_extensions[k]) \in DOMAIN f[group][e]
              /\ f[group][e][LocalName(file_id, video_extensions[k])].size > 0

\* C4: a second download_pair call on a pair whose folder is complete makes
\* no HTTP request, whichever extension the companion is stored under.
SecondCallMakesNoRequest ==
    (tool = "pair" /\ LastCall >= 2 /\ denied = {}
        /\ \E k \in 1..Len(video_extensions) : CompleteUnder(pairs[1], hist.fs, k)) =>
        task[LastCall].nreq = 0

\* what holds of C4: no request when the companion is stored under the
\* first extension of the list
SecondCallMakesNoRequestFirst ==
    (tool = "pair" /\ LastCall >= 2 /\ denied = {}
        /\ CompleteUnder(pairs[1], hist.fs, 1)) =>
        task[LastCall].nreq = 0

(***************************************************************************)
(* Runs of the tools one after the other (SpecTools)                       *)
(***************************************************************************)
\* the persisted ledger
Ledger == load_progress(progress_file)

\* the step that is the non-force reconciliation pass of the downloader
ReconcileStep ==
    /\ tool = "downloader"
    /\ ~force
    /\ mainpc = "start"
    /\ mainpc' \in {"submit", "done"}

KeysOf(ps) == {pair_key(ps[j].pdf) : j \in DOMAIN ps}

ReconcileOnlyAdds ==
    ReconcileStep =>
        /\ Ledger \subseteq completed'
        /\ Ledger \subseteq Ledger'
        /\ Ledger' = completed'
        /\ \A key \in completed' \ Ledger :
              \E j \in DOMAIN pairs :
                  /\ pair_key(pairs[j].pdf) = key
                  /\ folder_exists_for_pair(pairs[j].pdf, fs, denied)

\* C5: in every non-force reconciliation pass of a sequence of runs the
\* ledger after the pass contains the ledger before it; the keys added are
\* keys of listed pairs for which folder_exists_for_pair answers True, and
\* no key is removed, also not one whose folder is absent from disk.
ReconciliationMonotonic == [][ReconcileOnlyAdds]_vars

\* a pass has added a key for a folder on disk and has kept the key of a
\* listed pair that has no folder
ReconciliationMonotonicWitness ==
    /\ tool = "downloader"
    /\ ~force
    /\ mainpc # "start"
    /\ task = <<>>
    /\ completed = hist.ledger
    /\ hist.ledger \ hist.loaded # {}
    /\ \E j \in DOMAIN pairs :
          /\ pair_key(pairs[j].pdf) \in hist.loaded
          /\ pair_key(pairs[j].pdf) \in completed
          /\ ~folder_exists_for_pair(pairs[j].pdf, fs, denied)

\* the keys the retry tool clears: those of the listed pairs without a folder
ClearedKeys == KeysOf(find_skipped_pairs(pairs, fs, denied))

LedgerStep ==
    /\ (tool = "downloader" /\ ~force) => Ledger \subseteq Ledger'
    /\ (tool = "retry" /\ mainpc = "start" /\ mainpc' # "start") =>
          Ledger' = Ledger \ ClearedKeys
    /\ (tool = "retry" /\ mainpc # "start") => Ledger \subseteq Ledger'

\* a run of the retry tool that dispatched pairs has ended
RetryFinished == tool = "retry" /\ DispatchFinished

RetryAddsSucceeded ==
    RetryFinished =>
        Ledger = hist.ledger \cup {pair_key(remaining[t].pdf) : t \in {u \in Tasks : TaskOk(u)}}

LedgerGrows == ~force => Ledger \subseteq Ledger'

EntryExists(p, f) ==
    \E entry \in listdir(f, parse_url_info(p.pdf)[1]) :
        Matches(entry, parse_url_info(p.pdf)[2])

\* the listing of baseDir/group is refused
ListingRefused(p, f, den) ==
    isdir(f, parse_url_info(p.pdf)[1]) /\ parse_url_info(p.pdf)[1] \in den

ToRemain(p) ==
    /\ pair_key(p.pdf) \notin Ledger
    /\ ~EntryExists(p, fs)
    /\ ~ListingRefused(p, fs, denied)

ReconcilePartitions ==
    ReconcileStep =>
        /\ remaining' = SelectSeq(pairs, ToRemain)
        /\ completed' = Ledger \cup
              {pair_key(pairs[j].pdf) : j \in {k \in DOMAIN pairs :
                    EntryExists(pairs[k], fs) \/ ListingRefused(pairs[k], fs, denied)}}

\* C7 as amended: non-force reconciliation places a pair in remaining iff
\* its key is not in the loaded ledger, no entry named itemID or starting
\* with itemID + " - " is under baseDir/group and the listing of
\* baseDir/group is not refused; the key of a pair skipped for its folder
\* (or for the refused listing) is added to the ledger; a pair in the ledger
\* is skipped whatever the disk holds; remaining keeps the input order.
ReconciliationPartition == [][ReconcilePartitions]_vars

\* reconciliation has skipped a pair that has no entry under a group whose
\* listing is refused, and has kept another pair for dispatch
ReconciliationPartitionWitness ==
    /\ tool = "downloader"
    /\ ~force
    /\ mainpc = "submit"
    /\ nsub = 0
    /\ remaining # <<>>
    /\ \E j \in DOMAIN pairs :
          /\ ListingRefused(pairs[j], fs, denied)
          /\ ~EntryExists(pairs[j], fs)
          /\ pair_key(pairs[j].pdf) \in completed \ hist.loaded

ToRemainByEntry(p) == pair_key(p.pdf) \notin Ledger /\ ~EntryExists(p, fs)

ReconcilePartitionsByEntry ==
    ReconcileStep => remaining' = SelectSeq(pairs, ToRemainByEntry)

\* C7 as stated: a pair is placed in remaining iff its key is not in the
\* loaded ledger and no entry named itemID or starting with itemID + " - "
\* is under baseDir/group.
PartitionByEntry == [][ReconcilePartitionsByEntry]_vars

(***************************************************************************)
(* The dispatcher and the persisted ledger (Spec)                          *)
(***************************************************************************)
\* the pairs counted as succeeded whose key is not in the progress file
Unsaved ==
    {t \in Tasks : task[t].pc = "collected" /\ TaskOk(t)
                   /\ pair_key(remaining[t].pdf) \notin Ledger}

SavedWithinBatch ==
    /\ Cardinality(Unsaved) <= i % save_every
    /\ Cardinality(Unsaved) <= save_every
    /\ completed \ Ledger \subseteq {pair_key(remaining[t].pdf) : t \in Unsaved}
    /\ DispatchFinished => Ledger = completed

\* the completion that makes i a multiple of save_every is followed by a save
SavedEveryBatch == (i' = i + 1 /\ i' % save_every = 0) => Ledger' = completed'

\* C11: the ledger is persisted after every 25th collected completion and
\* after the last one; at every point of the dispatch at most one batch (25)
\* of the pairs counted as succeeded have a key that is missing from the
\* progress file, and when the dispatcher has finished the persisted ledger
\* is the in-memory ledger.
PeriodicSave == []SavedWithinBatch /\ [][SavedEveryBatch]_vars

\* the 25th completion of the batch run has been collected: 25 keys were
\* added and all of them are in the progress file
PeriodicSaveWitness ==
    /\ pairs = BatchPairList
    /\ mainpc = "collect"
    /\ i = save_every
    /\ succeeded = save_every
    /\ Cardinality(completed \ hist.ledger) = save_every
    /\ Ledger = completed

\* download_pair reported primaryOK or companionOK for the pair of task t
ReportedOk(t) ==
    task[t].ret.st = "ret" /\ (task[t].ret.pdf_ok \/ task[t].ret.vid_ok)

\* the as_completed turn of task t: the key is added and the pair counted
\* as succeeded iff download_pair reported primaryOK or companionOK
CollectedByReport ==
    \A t \in Tasks :
        (task[t].pc = "done" /\ task'[t].pc = "collected") =>
            IF ReportedOk(t)
            THEN /\ completed' = completed \cup {pair_key(remaining[t].pdf)}
                 /\ succeeded' = succeeded + 1
                 /\ failed' = failed
            ELSE /\ completed' = completed
                 /\ succeeded' = succeeded
                 /\ failed' = failed + 1

\* a later run of the downloader without --force has reconciled
LaterRunReconciled ==
    /\ tool = "downloader"
    /\ ~force
    /\ runs > 1
    /\ mainpc # "start"

\* the pairs of the previous run for which only the companion was retrieved
CompanionOnly ==
    {j \in DOMAIN hist.prev :
        hist.prev[j].ret = Returned(FALSE, TRUE)}

InList(p, ps) == \E j \in DOMAIN ps : ps[j] = p

MarkedByReport ==
    /\ LaterRunReconciled =>
          \A j \in CompanionOnly :
              /\ pair_key(hist.prev[j].pair.pdf) \in hist.loaded
              /\ ~InList(hist.prev[j].pair, remaining)
    /\ DispatchFinished =>
          \A t \in Tasks :
              ~task[t].ret.vid_ok =>
                  /\ ~TaskOk(t)
                  /\ \/ pair_key(remaining[t].pdf) \notin completed \ hist.ledger
                     \/ \E u \in Tasks : TaskOk(u) /\ remaining[u] = remaining[t]

\* C12: the dispatcher adds a pair's key and counts the pair as succeeded
\* iff download_pair reported primaryOK or companionOK; a pair whose PDF
\* failed and whose companion was retrieved is in the ledger and is not
\* dispatched by a later run without --force; a pair without a companion is
\* counted as failed and its key is not added in that run.
LedgerFollowsReport == []MarkedByReport /\ [][CollectedByReport]_vars

\* a later run has reconciled after a run in which a pair's PDF failed and
\* its companion was retrieved, and another pair had no companion
LedgerFollowsReportWitness ==
    /\ LaterRunReconciled
    /\ CompanionOnly # {}
    /\ \E j \in DOMAIN hist.prev : hist.prev[j].ret = Returned(FALSE, FALSE)

(***************************************************************************)
(* The folder a worker leaves behind                                       *)
(***************************************************************************)
\* folder e of group g holds a non-empty companion file of file_id
HasCompanion(f, g, e, file_id) ==
    /\ HasFolder(f, g, e)
    /\ \E k \in 1..Len(video_extensions) :
          /\ LocalName(file_id, video_extensions[k]) \in DOMAIN f[g][e]
          /\ f[g][e][LocalName(file_id, video_extensions[k])].size > 0

\* the folder is in a final state: it holds a companion or it does not exist
FinalState(f, g, e, file_id) == ~HasFolder(f, g, e) \/ HasCompanion(f, g, e, file_id)

\* the step with which the worker of task t leaves download_pair, by a
\* return or by an exception, leaves the folder it resolved in a final state
FinishesInFinalState ==
    \A t \in Tasks :
        (task[t].pc # "done" /\ task'[t].pc = "done") =>
            FinalState(fs', GroupOf(t), task'[t].folder, FileIdOf(t))

\* C13: when a worker finishes a pair, whether download_pair returns or
\* raises, the pair's folder holds a non-empty companion file or does not
\* exist; no companion-less folder is left behind.
FolderLeftFinal == [][FinishesInFinalState]_vars


\* the folders of the group of pair p whose name matches its identity
FoldersOf(p, f) ==
    LET group == parse_url_info(p.pdf)[1]
        file_id == parse_url_info(p.pdf)[2]
    IN  IF ~isdir(f, group) THEN {}
        ELSE {entry \in listdir(f, group) : Matches(entry, file_id)}

Materialized(p, f) ==
    \A entry \in FoldersOf(p, f) :
        HasCompanion(f, parse_url_info(p.pdf)[1], entry, parse_url_info(p.pdf)[2])

BetweenRuns ==
    tool \in {"downloader", "retry"} /\ mainpc \in {"start", "done", "raised"}

\* C14: between runs, a folder on disk that matches the identity of a listed
\* pair holds a non-empty companion file of that pair, so a pair that
\* reconciliation skips for its folder was downloaded
FolderImpliesDownloaded ==
    BetweenRuns => \A j \in DOMAIN pairs : Materialized(pairs[j], fs)


(***************************************************************************)
(* Resuming by running the downloader again                                *)
(***************************************************************************)
\* the pairs the previous run counted as failed
FailedBefore ==
    {hist.prev[j].pair : j \in {k \in DOMAIN hist.prev :
                                   ~(/\ hist.prev[k].ret.st = "ret"
                                     /\ \/ hist.prev[k].ret.pdf_ok
                                        \/ hist.prev[k].ret.vid_ok)}}

\* the downloader has reconciled, without --force, after a run of the
\* downloader on the same list
Rerun == LaterRunReconciled /\ hist.prevtool = "downloader"

\* C15: a run of the downloader without --force that follows a finished run
\* on the same inputs dispatches exactly the pairs the first run counted as
\* failed: no pair that succeeded is dispatched again and no failed pair is
\* skipped.
RerunDispatchesFailed ==
    Rerun => {remaining[j] : j \in DOMAIN remaining} = FailedBefore


(***************************************************************************)
(* Recovery of a lost progress file                                        *)
(***************************************************************************)
\* the downloader starts without --force on a progress file that is absent
\* or damaged
StartsWithoutLedger ==
    /\ mainpc = "start"
    /\ tool = "downloader"
    /\ ~force
    /\ progress_file.kind # "valid"

Recovered ==
    /\ \A j \in DOMAIN pairs :
          FoldersOf(pairs[j], fs) # {} =>
              /\ ~InList(pairs[j], remaining')
              /\ pair_key(pairs[j].pdf) \in completed'
    /\ mainpc' \in {"submit", "done"}
    /\ ~load_progress_raises(progress_file')
    /\ load_progress(progress_file') = completed'
    /\ task' = <<>>

RecoversStep == (StartsWithoutLedger /\ mainpc' # "start") => Recovered

\* C16: a run without --force that finds the progress file deleted or
\* damaged dispatches no pair whose folder exists, adds the key of every
\* listed pair with a folder to the ledger, and has written the recovered
\* ledger to the progress file before any pair is dispatched.
LedgerRecoveredFromDisk == [][RecoversStep]_vars


(***************************************************************************)
(* download_file, call by call                                             *)
(***************************************************************************)
DfPcs == {"df_check", "df_get", "df_open", "df_write", "df_size", "df_replace",
          "df_remove"}

\* the file the download_file call of task t is to store, if it is on disk
LocalFile(t) ==
    LET files == FolderFiles(fs, GroupOf(t), task[t].folder)
        local == LocalName(FileIdOf(t), ExtOf(task[t]))
    IN  IF local \in DOMAIN files THEN {files[local]} ELSE {}

\* the step ends the download_file call of task t
Leaves(t) ==
    /\ task[t].pc \in DfPcs
    /\ task'[t].pc \notin DfPcs \/ task'[t].stage # task[t].stage

\* the step ends the download_file call of task t with the return value v
ReturnsFrom(t, v) ==
    /\ Leaves(t)
    /\ task'[t].ret # Raised
    /\ IF task[t].stage = 0 THEN task'[t].pdf_ok = v ELSE task'[t].ret.vid_ok = v

\* download_file is entered with local_path on disk, size > 0
EntersOnStoredFile(t) ==
    /\ task[t].pc = "df_check"
    /\ \E file \in LocalFile(t) : file.size > 0

ShortCircuits ==
    \A t \in Tasks :
        (EntersOnStoredFile(t) /\ task'[t] # task[t]) =>
            /\ ReturnsFrom(t, TRUE)
            /\ task'[t].nget = 0
            /\ task'[t].nreq = task[t].nreq
            /\ task'[t].slept = <<>>
            /\ fs' = fs

\* C17: download_file returns true without issuing any HTTP request and
\* without touching the file whenever localPath already exists with
\* size > 0.
StoredFileShortCircuit == [][ShortCircuits]_vars

\* a call of download_pair has found the PDF on disk, has made no request
\* for it and has gone on to the companion
StoredFileShortCircuitWitness ==
    /\ tool = "pair"
    /\ Len(task) >= 1
    /\ task[Len(task)].stage = 1
    /\ task[Len(task)].pc = "df_get"
    /\ task[Len(task)].pdf_ok
    /\ task[Len(task)].nreq = 0
    /\ LocalName(FileIdOf(Len(task)), "pdf") \in
          DOMAIN FolderFiles(hist.fs, GroupOf(Len(task)), task[Len(task)].folder)


\* the step is a request of task t that the site answers with 403 or 404
Forbidden(t) ==
    /\ task[t].pc = "df_get"
    /\ Response(KindFor(t), task[t].attempt) = "notfound"
    /\ task'[t] # task[t]

TerminalStatusStep ==
    \A t \in Tasks :
        Forbidden(t) =>
            /\ ReturnsFrom(t, FALSE)
            /\ task'[t].nget = task[t].attempt
            /\ task'[t].slept = task[t].slept
            /\ Len(task'[t].slept) = task[t].attempt - 1
            /\ fs' = fs

\* C18: a 403 or 404 response ends the attempt sequence of download_file at
\* once: it returns false without sleeping and without a further request,
\* whichever attempt received the response, and creates no file at
\* localPath.
TerminalStatus == [][TerminalStatusStep]_vars

\* a call in which the second attempt for the PDF was answered 404 after a
\* failed first attempt, and download_pair has gone on to the companion
TerminalStatusWitness ==
    /\ tool = "pair"
    /\ Len(task) >= 1
    /\ KindOf(server.pdf, pairs[1].pdf) = "lapse"
    /\ task[Len(task)].stage = 1
    /\ task[Len(task)].pc = "df_check"
    /\ ~task[Len(task)].pdf_ok
    /\ task[Len(task)].nget = 2
    /\ task[Len(task)].slept = <<RETRY_DELAY>>


\* the sleeps of a call that has seen n failed attempts followed by another
Backoff(n) == [k \in 1..n |-> RETRY_DELAY * k]

\* the step is an attempt of task t that fails in a way that is retried: a
\* status other than 2xx, 403, 404, or a transport error before or within
\* the body
FailedAttempt(t) ==
    /\ task'[t] # task[t]
    /\ \/ task[t].pc = "df_get" /\ Response(KindFor(t), task[t].attempt) = "error"
       \/ task[t].pc = "df_write" /\ task[t].resp = "abort" /\ task[t].off >= 1

\* the step stores the non-empty body of an attempt of task t
StoresBody(t) == task[t].pc = "df_replace" /\ task'[t] # task[t]

RetryBudget ==
    \A t \in Tasks :
        /\ task[t].nget <= MAX_RETRIES
        /\ task[t].slept = Backoff(Len(task[t].slept))
        /\ task[t].pc \in DfPcs \ {"df_check"} =>
              /\ task[t].attempt <= MAX_RETRIES
              /\ Len(task[t].slept) = task[t].attempt - 1
              /\ task[t].nget = IF task[t].pc = "df_get" THEN task[t].attempt - 1
                                ELSE task[t].attempt

RetryStep ==
    \A t \in Tasks :
        /\ FailedAttempt(t) =>
              IF task[t].attempt < MAX_RETRIES
              THEN /\ ~Leaves(t)
                   /\ task'[t].pc = "df_get"
                   /\ task'[t].attempt = task[t].attempt + 1
                   /\ task'[t].slept = Append(task[t].slept, RETRY_DELAY * task[t].attempt)
              ELSE /\ ReturnsFrom(t, FALSE)
                   /\ task'[t].nget = MAX_RETRIES
                   /\ task'[t].slept = Backoff(MAX_RETRIES - 1)
        /\ StoresBody(t) =>
              /\ ReturnsFrom(t, TRUE)
              /\ task'[t].nget = task[t].attempt
              /\ task'[t].slept = Backoff(task[t].attempt - 1)

\* C19: for retryable failures download_file makes at most MAX_RETRIES
\* requests per call, sleeps RETRY_DELAY * k after the k-th failed attempt
\* before attempt k + 1, returns true as soon as an attempt yields a
\* non-empty body, and returns false after the last failed attempt.
RetriesWithBackoff == []RetryBudget /\ [][RetryStep]_vars

\* a call of download_file has returned false after MAX_RETRIES failed
\* attempts, and an earlier call of the same download_pair call had stored
\* the PDF on its second attempt
RetriesWithBackoffWitness ==
    /\ tool = "pair"
    /\ Len(task) >= 1
    /\ KindOf(server.pdf, pairs[1].pdf) = "flaky"
    /\ task[Len(task)].pdf_ok
    /\ task[Len(task)].stage >= 1
    /\ task[Len(task)].pc \in {"df_check", "dp_rmtree"}
    /\ task[Len(task)].nget = MAX_RETRIES
    /\ task[Len(task)].slept = Backoff(MAX_RETRIES - 1)


\* the files of the folder task t resolved, on disk f
FilesOf(f, t) == FolderFiles(f, GroupOf(t), task[t].folder)

\* task t is in an attempt that was answered 2xx with an empty body
EmptyBody(t) == task[t].pc \in DfPcs /\ task[t].resp = "empty"

EmptyBodyStep ==
    \A t \in Tasks :
        (EmptyBody(t) /\ task'[t] # task[t]) =>
            /\ task'[t].nget = task[t].nget
            /\ task'[t].slept = task[t].slept
            /\ task[t].pc = "df_size" => task'[t].pc = "df_remove"
            /\ task[t].pc = "df_remove" => Leaves(t)
            /\ IF Leaves(t)
               THEN /\ ReturnsFrom(t, FALSE)
                    /\ LocalName(FileIdOf(t), ExtOf(task[t])) \notin DOMAIN FilesOf(fs', t)
                    /\ TempName(FileIdOf(t), ExtOf(task[t])) \notin DOMAIN FilesOf(fs', t)
               ELSE /\ task'[t].resp = "empty"
                    /\ task'[t].attempt = task[t].attempt

\* C20: a successful status with an empty body makes download_file discard
\* the temporary file and return false at once, with no retry; afterwards
\* neither localPath nor localPath.tmp exists.
EmptyBodyDiscarded == [][EmptyBodyStep]_vars

\* the .mp4 companion was answered with an empty body on the only request
\* made for it, download_file has returned, and download_pair has gone on
\* to the next extension
EmptyBodyDiscardedWitness ==
    /\ tool = "pair"
    /\ Len(task) >= 1
    /\ Len(video_extensions) >= 3
    /\ KindOf(server.vid, CompanionUrl(pairs[1].vid, video_extensions, 2)) = "empty"
    /\ task[Len(task)].stage = 3
    /\ task[Len(task)].pc = "df_check"
    /\ task[Len(task)].nget = 1
    /\ task[Len(task)].slept = <<>>
    /\ HasFolder(fs, GroupOf(Len(task)), task[Len(task)].folder)
    /\ LocalName(FileIdOf(Len(task)), video_extensions[2]) \notin DOMAIN FilesOf(fs, Len(task))
    /\ TempName(FileIdOf(Len(task)), video_extensions[2]) \notin DOMAIN FilesOf(fs, Len(task))


\* neither local_path nor local_path + ".tmp" of the download_file call of
\* task t is on disk f
NothingStored(f, t) ==
    /\ LocalName(FileIdOf(t), ExtOf(task[t])) \notin DOMAIN FilesOf(f, t)
    /\ TempName(FileIdOf(t), ExtOf(task[t])) \notin DOMAIN FilesOf(f, t)

FailureCleanStep ==
    \A t \in Tasks :
        /\ FailedAttempt(t) => NothingStored(fs', t)
        /\ (ReturnsFrom(t, FALSE) /\ (FailedAttempt(t) \/ task[t].slept # <<>>)) =>
              NothingStored(fs', t)

StaysInBoundary ==
    \A t \in Tasks :
        (task[t].pc \in DfPcs /\ task'[t] # task[t]) => task'[t].ret # Raised

\* C22: download_file never raises past its boundary: for every outcome of
\* the request, of the streaming and of the file-system operations the
\* result is the boolean true or false.
DownloadFileNeverRaises == [][StaysInBoundary]_vars


(***************************************************************************)
(* load_progress on a damaged file                                         *)
(***************************************************************************)
\* C23: load_progress returns the empty set whenever the progress file is
\* absent or its content is damaged in any way (not JSON, JSON that is not
\* an object, a "completed" value that is not a list of strings); it never
\* raises.
LoadProgressNeverRaises ==
    progress_file.kind # "valid" =>
        /\ ~load_progress_raises(progress_file)
        /\ load_progress(progress_file) = {}


(***************************************************************************)
(* A listing that is refused during reconciliation                         *)
(***************************************************************************)
\* the pairs of the list whose key is not in the loaded ledger and whose
\* group directory cannot be listed: reconciliation lists for them
RefusedPairs ==
    {j \in DOMAIN pairs :
        /\ pair_key(pairs[j].pdf) \notin Ledger
        /\ ListingRefused(pairs[j], fs, denied)}

\* the downloader, started without --force, has its ledger and reconciles
Reconciles ==
    /\ tool = "downloader"
    /\ ~force
    /\ mainpc = "start"
    /\ ~load_progress_raises(progress_file)
    /\ mainpc' # "start"

RefusedMeansExists ==
    (Reconciles /\ RefusedPairs # {}) =>
        /\ mainpc' \in {"submit", "done"}
        /\ \A j \in RefusedPairs :
              /\ ~InList(pairs[j], remaining')
              /\ pair_key(pairs[j].pdf) \in completed'
              /\ pair_key(pairs[j].pdf) \in Ledger'

\* C24: a permission failure while listing baseDir/group during
\* reconciliation is treated as "folder exists": the pair is not dispatched,
\* its key is added to the ledger, and the run continues without error.
RefusedListingCountsAsDone == [][RefusedMeansExists]_vars

\* every pair of the list was skipped for a listing that was refused, no
\* folder of any of them is on disk, and the run has ended without dispatch
RefusedListingCountsAsDoneWitness ==
    /\ tool = "downloader"
    /\ ~force
    /\ mainpc = "done"
    /\ task = <<>>
    /\ remaining = <<>>
    /\ hist.loaded = {}
    /\ \A j \in DOMAIN pairs :
          /\ ListingRefused(pairs[j], fs, denied)
          /\ ~EntryExists(pairs[j], fs)
          /\ pair_key(pairs[j].pdf) \in Ledger


(***************************************************************************)
(* The run with --force                                                    *)
(***************************************************************************)
\* the downloader, started with --force, has its ledger and leaves phase 2
ForcedStart ==
    /\ tool = "downloader"
    /\ force
    /\ mainpc = "start"
    /\ ~load_progress_raises(progress_file)
    /\ mainpc' # "start"

\* the ledger is cleared and saved, and every pair of the list is dispatched
ForcedReset ==
    ForcedStart =>
        /\ remaining' = pairs
        /\ completed' = {}
        /\ progress_file' = save_progress({})
        /\ task' = <<>>

\* in a run with --force, a download_file call that returns true has
\* requested the file
ForcedFetch ==
    (tool = "downloader" /\ force) =>
        \A t \in Tasks : ReturnsFrom(t, TRUE) => task'[t].nget >= 1

ForcedStep == ForcedReset /\ ForcedFetch

\* C25: with --force the run ignores the ledger and the disk: the ledger is
\* cleared and saved as empty before dispatch, every pair of the list is
\* dispatched whatever the ledger and the folders hold, and the files of
\* each dispatched pair are fetched again even when they are on disk.
ForceRedownloadsAll == [][ForcedStep]_vars


(***************************************************************************)
(* The folder download_pair writes into                                    *)
(***************************************************************************)
\* the step in which task t resolves its folder
ResolvesFolder(t) == task[t].pc = "dp_list" /\ task'[t].pc = "dp_mkdir"

\* the group directory of task t is there and can be listed
Listable(t) == isdir(fs, GroupOf(t)) /\ GroupOf(t) \notin denied

\* every folder other than the one task t resolved is as it was
OnlyOwnFolder(t) ==
    \A g \in DOMAIN fs \cup DOMAIN fs' :
        \A e \in listdir(fs, g) \cup listdir(fs', g) :
            (g # GroupOf(t) \/ e # task[t].folder) =>
                /\ HasFolder(fs, g, e)
                /\ HasFolder(fs', g, e)
                /\ fs'[g][e] = fs[g][e]

ResolvedByMatch ==
    \A t \in Tasks :
        /\ ResolvesFolder(t) =>
              IF Listable(t) /\ FoldersOf(PairOf(t), fs) # {}
              THEN task'[t].folder \in FoldersOf(PairOf(t), fs)
              ELSE task'[t].folder = FileIdOf(t)
        /\ (task[t].pc \in DfPcs \cup {"dp_mkdir"} /\ task'[t] # task[t]) =>
              OnlyOwnFolder(t)

RenamedCountsAsDone ==
    Reconciles =>
        \A j \in DOMAIN pairs :
            EntryExists(pairs[j], fs) =>
                /\ ~InList(pairs[j], remaining')
                /\ pair_key(pairs[j].pdf) \in completed'

ResolveStep == ResolvedByMatch /\ RenamedCountsAsDone

ResolvedWheneverThere ==
    \A t \in Tasks :
        ResolvesFolder(t) =>
            IF FoldersOf(PairOf(t), fs) # {}
            THEN task'[t].folder \in FoldersOf(PairOf(t), fs)
            ELSE task'[t].folder = FileIdOf(t)

PairFolders == UNION {{<<g, e>> : e \in DOMAIN fs[g]} : g \in DOMAIN fs}

EndToEndDone == pairs = EndToEndList /\ mainpc = "done"

\* C27: with the extension list [mov, mp4, jpg] and three pairs of distinct
\* identities, one with a .mov companion, one with only a .jpg companion
\* and one without a companion, every interleaving ends with exactly 2 pair
\* folders on disk, a ledger of exactly those 2 keys, succeeded = 2 and
\* failed = 1.
EndToEndOutcome ==
    EndToEndDone =>
        /\ PairFolders = {<<DataSet1, <<"M">>>>, <<DataSet1, <<"J">>>>}
        /\ Ledger = {pair_key(pM.pdf), pair_key(pJ.pdf)}
        /\ succeeded = 2
        /\ failed = 1


(***************************************************************************)
(* The identity of a URL                                                   *)
(***************************************************************************)
\* the URL up to its query and fragment
WithoutQuery(text) ==
    LET cut == {k \in DOMAIN text : text[k] \in {"?", "#"}}
    IN  IF cut = {} THEN text ELSE SubSeq(text, 1, Least(cut) - 1)

\* the percent-decoded last path segment without its extension
DecodedStem(text) == splitext(unquote(LastPiece(WithoutQuery(text), "/")))

\* the identity as documented
Documented(text) ==
    IF ds_match(unquote(text)) # ""
    THEN <<(<<"DataSet", ds_match(unquote(text))>>), DecodedStem(text)>>
    ELSE <<StripWww(Labels(netloc(text))),
           IF DecodedStem(text) = <<>> THEN <<"unknown">> ELSE DecodedStem(text)>>

\* https://host/DataSet 3/ABC.pdf
ExampleDataSet == <<"https://", "host", "/", "DataSet", " ", "3", "/", "ABC", ".", "pdf">>

\* https://example.com/files/x.pdf
ExampleGeneric ==
    <<"https://", "example", ".", "com", "/", "files", "/", "x", ".", "pdf">>

\* C28: parse_url_info is a function of the primary URL: a URL containing
\* "DataSet" followed by a number N yields the group DataSet_N and the
\* percent-decoded last path segment without its extension; any other URL
\* yields the host without "www." and with "_" for ".", and the decoded
\* filename stem, or "unknown" when the stem is empty.
IdentityAsDocumented ==
    (tool = "parse" /\ mainpc = "returned") =>
        /\ identity = Documented(url_text)
        /\ url_text = ExampleDataSet => identity = <<(<<"DataSet", "3">>), <<"ABC">>>>
        /\ url_text = ExampleGeneric => identity = <<(<<"example", "com">>), <<"x">>>>


(***************************************************************************)
(* Termination of a run                                                    *)
(***************************************************************************)
\* every download_file call stays within the retry budget and every
\* probing loop within the extension list
WithinBudget ==
    \A t \in Tasks :
        /\ task[t].attempt \in 1..MAX_RETRIES
        /\ task[t].nget <= MAX_RETRIES
        /\ task[t].stage <= Len(video_extensions)

\* the probing loop of a frame only moves forward
ProbesForward ==
    \A t \in DOMAIN task \cap DOMAIN task' : task'[t].stage >= task[t].stage

\* every submitted pair has been counted as completed or failed, and the
\* final save has been done
AllResolved ==
    /\ mainpc = "done"
    /\ Len(task) = Len(remaining)
    /\ \A t \in Tasks : task[t].pc = "collected"
    /\ finished = <<>>
    /\ i = nsub
    /\ succeeded + failed = nsub
    /\ progress_file = save_progress(completed)

\* C29: every dispatcher run terminates: every download_file call ends
\* within MAX_RETRIES attempts, every probing loop ends after at most one
\* pass over the extension list, every submitted pair resolves to completed
\* or failed, and the dispatcher then does its final save and returns.
DispatcherTerminates ==
    /\ []WithinBudget
    /\ [][ProbesForward]_vars
    /\ (mainpc = "submit") ~> AllResolved
    /\ <>(mainpc = "done")

DispatcherTerminatesWitness ==
    /\ AllResolved
    /\ failed > 0
    /\ \E t \in Tasks :
          /\ task[t].nget = MAX_RETRIES
          /\ task[t].stage = Len(video_extensions)


(***************************************************************************)
(* The progress lock                                                       *)
(***************************************************************************)
\* a step of a worker thread leaves the ledger alone
OnlyDispatcherTouchesLedger ==
    (completed' # completed \/ progress_file' # progress_file) =>
        mainpc \in {"start", "collect", "save"} /\ (mainpc' # mainpc \/ i' = i + 1)

\* a completion that is reported is added, none recorded before is dropped,
\* and a save writes the whole set
NoLostUpdate ==
    /\ (mainpc = "collect" /\ i' = i + 1) =>
          LET t == Head(finished)
          IN  /\ completed \subseteq completed'
              /\ (task[t].ret.st = "ret" /\ (task[t].ret.pdf_ok \/ task[t].ret.vid_ok))
                    => <<GroupOf(t), FileIdOf(t)>> \in completed'
    /\ progress_file' # progress_file => progress_file' = save_progress(completed')

AllLockedStep ==
    /\ \A a \in StepAccesses : a.locked
    /\ NoLostUpdate

LockedOnceSubmittedStep ==
    /\ \A a \in StepAccesses :
          (mainpc # "start" \/ (a.obj = "progress_file" /\ a.op = "write")) => a.locked
    /\ mainpc = "start" => task = <<>>
    /\ OnlyDispatcherTouchesLedger
    /\ NoLostUpdate

InOrderSelection(rem, ps, f, den) ==
    LET idx == {k \in DOMAIN ps : ~folder_exists_for_pair(ps[k].pdf, f, den)}
    IN  /\ Len(rem) = Cardinality(idx)
        /\ \E pos \in [DOMAIN rem -> idx] :
              /\ \A j, k \in DOMAIN rem : j < k => pos[j] < pos[k]
              /\ \A j \in DOMAIN rem : rem[j] = ps[pos[j]]

\* the retry tool hands its selection to the pool
RetrySelectsStep ==
    (tool = "retry" /\ ~dry_run /\ mainpc = "start" /\ mainpc' \in {"submit", "done"}) =>
        InOrderSelection(remaining', pairs, fs, denied)

RetrySucceeded(t) == task[t].ret.st = "ret" /\ (task[t].ret.pdf_ok \/ task[t].ret.vid_ok)

SelectedKeys == {pair_key(remaining[t].pdf) : t \in DOMAIN remaining}

\* a retry run that dispatched pairs has returned
RetryReturned ==
    tool = "retry" /\ ~dry_run /\ mainpc = "done" /\ remaining # <<>>

RetryLedger ==
    RetryReturned =>
        LET ledger == load_progress(progress_file)
        IN  /\ progress_file.kind = "valid"
            /\ \A t \in Tasks : pair_key(remaining[t].pdf) \in ledger <=> RetrySucceeded(t)
            /\ \A k \in (ledger \cup hist.loaded) \ SelectedKeys :
                  k \in ledger <=> k \in hist.loaded

\* C31: the retry tool selects exactly the pairs for which
\* folder_exists_for_pair is false, in input order; after a run without
\* --dry-run the saved ledger holds the key of a selected pair iff its retry
\* succeeded, and the other keys are as they were.
RetrySelectsAndRecords == [][RetrySelectsStep]_vars /\ []RetryLedger

RetrySelectsAndRecordsWitness ==
    /\ RetryReturned
    /\ Len(remaining) < Len(pairs)
    /\ \E t \in Tasks : ~RetrySucceeded(t) /\ pair_key(remaining[t].pdf) \in hist.loaded
    /\ hist.loaded \ SelectedKeys # {}


\* a step of a retry run with --dry-run starts no download and leaves the
\* folders and the progress file as they are
DryRunStep ==
    (tool = "retry" /\ dry_run /\ mainpc = "start") =>
        /\ fs' = fs
        /\ progress_file' = progress_file
        /\ task' = <<>>
        /\ mainpc' \in {"done", "raised"}

\* C32: with --dry-run the retry tool only lists the skipped pairs: it
\* downloads nothing and leaves the folders on disk and the saved ledger
\* unchanged.
DryRunChangesNothing == [][DryRunStep]_vars


(***************************************************************************)
(* What a discard removes                                                  *)
(***************************************************************************)
\* download_pair of task t leaves through shutil.rmtree
DiscardStep(t) == task[t].pc = "dp_rmtree" /\ task'[t].pc = "done"

\* the folders in the group of task t that carry another identity of the
\* list: named by its itemID, or by its itemID and a summary
FoldersOfOthers(t) ==
    {e \in DOMAIN fs[GroupOf(t)] :
        \E k \in DOMAIN pairs :
            /\ parse_url_info(pairs[k].pdf)[1] = GroupOf(t)
            /\ parse_url_info(pairs[k].pdf)[2] # FileIdOf(t)
            /\ Matches(e, parse_url_info(pairs[k].pdf)[2])
            /\ ~Matches(FileIdOf(t), parse_url_info(pairs[k].pdf)[2])}

KeepsOthers(t) ==
    /\ isdir(fs', GroupOf(t))
    /\ \A e \in FoldersOfOthers(t) :
          /\ e \in DOMAIN fs'[GroupOf(t)]
          /\ fs'[GroupOf(t)][e] = fs[GroupOf(t)][e]

\* C33: a discard for lack of a companion removes only the folder of the
\* pair's own identity; the group directory and the folders of every other
\* identity in it are left unchanged, also when the itemID is a prefix of
\* another identity's folder name followed by " - ".
DiscardRemovesOwnFolderOnly ==
    [][\A t \in Tasks : DiscardStep(t) => KeepsOthers(t)]_vars


(***************************************************************************)
(* One folder per identity                                                 *)
(***************************************************************************)
\* the folders of group g that match the identity file_id
MatchingFolders(f, g, file_id) ==
    IF isdir(f, g) THEN {e \in DOMAIN f[g] : Matches(e, file_id)} ELSE {}

\* no download_pair call is under way
Quiescent == \A t \in Tasks : task[t].pc \in {"queued", "done", "collected"}

AtMostOneFolder ==
    Quiescent =>
        \A k \in DOMAIN pairs :
            Cardinality(MatchingFolders(fs, parse_url_info(pairs[k].pdf)[1],
                                        parse_url_info(pairs[k].pdf)[2])) <= 1

\* os.makedirs of task t adds no folder when its identity has one
NoSecondFolderStep(t) ==
    (task[t].pc = "dp_mkdir" /\ task'[t].pc # "dp_mkdir"
     /\ MatchingFolders(fs, GroupOf(t), FileIdOf(t)) # {}) =>
        MatchingFolders(fs', GroupOf(t), FileIdOf(t))
            = MatchingFolders(fs, GroupOf(t), FileIdOf(t))

\* C34: after any sequence of download_pair calls the group directory holds
\* at most one folder matching an identity (named itemID or starting with
\* itemID and " - "), and download_pair never creates a second folder for
\* an identity that already has one.
OneFolderPerIdentity ==
    []AtMostOneFolder /\ [][\A t \in Tasks : NoSecondFolderStep(t)]_vars


(***************************************************************************)
(* The pair of flags download_pair returns                                 *)
(***************************************************************************)
\* C35: download_pair never returns pdf_ok = True with vid_ok = False: when
\* no companion was retrieved it returns (False, False) even if the PDF was
\* downloaded, so "pdf_ok or vid_ok" in the dispatcher is vid_ok.
NeverPdfWithoutCompanion ==
    \A t \in Tasks :
        task[t].ret.st = "ret" =>
            /\ ~(task[t].ret.pdf_ok /\ ~task[t].ret.vid_ok)
            /\ (task[t].ret.pdf_ok \/ task[t].ret.vid_ok) <=> task[t].ret.vid_ok
            /\ TaskOk(t) <=> task[t].ret.vid_ok

\* a pair whose PDF was downloaded has been discarded and reported (False,
\* False), and the dispatcher has counted it as failed
NeverPdfWithoutCompanionWitness ==
    /\ mainpc = "done"
    /\ failed > 0
    /\ \E t \in Tasks :
          /\ task[t].pc = "collected"
          /\ task[t].pdf_ok
          /\ task[t].ret = Returned(FALSE, FALSE)
          /\ pair_key(remaining[t].pdf) \notin completed


(***************************************************************************)
(* The round trip of the ledger                                            *)
(***************************************************************************)
\* the list is strictly increasing: sorted and without duplicates
StrictlySorted(text) ==
    \A j, k \in DOMAIN text : j < k => StrLess(text[j], text[k])

\* the file holds exactly the keys of the saved set, sorted
FileHoldsSet ==
    mainpc \in {"saved", "saved again", "loaded"} =>
        /\ progress_file.kind = "valid"
        /\ StrictlySorted(progress_text)
        /\ {progress_text[j] : j \in DOMAIN progress_text}
              = {KeyText(k) : k \in hist.ledger}
        /\ Len(progress_text) = Cardinality(hist.ledger)

\* load_progress after save_progress(S) returns S
LoadReturnsSaved == mainpc = "loaded" => completed = hist.ledger

\* the second save of the same set leaves the file as it is
SecondSaveStep ==
    (mainpc = "saved" /\ mainpc' = "saved again") =>
        progress_text' = progress_text /\ progress_file' = progress_file

HookedFiles(t) == {task[t].hooked[j] : j \in DOMAIN task[t].hooked}

\* the hook is called only with the mode on, after the companion was
\* retrieved, for the companion that succeeded and for a PDF that was
\* retrieved
HookOnlyWhenConfigured ==
    \A t \in Tasks :
        HookedFiles(t) # {} =>
            /\ immediate_dehydrate
            /\ task[t].pc \in {"dp_hook_vid", "done", "collected"}
            /\ task[t].ret.st = "ret" => task[t].ret.vid_ok
            /\ task[t].stage >= 1
            /\ HookedFiles(t) \subseteq {"pdf", ExtOf(task[t])}
            /\ "pdf" \in HookedFiles(t) => task[t].pdf_ok
            /\ Len(task[t].hooked) = Cardinality(HookedFiles(t))

\* with the mode on, a call that returns a retrieved companion has called
\* the hook for it
HookCalledForCompanion ==
    \A t \in Tasks :
        (immediate_dehydrate /\ task[t].ret.st = "ret" /\ task[t].ret.vid_ok) =>
            ExtOf(task[t]) \in HookedFiles(t)

\* C37: the online-only hook is called only when immediate_dehydrate is set
\* and the companion was retrieved: then it is called for the companion
\* file at the path that succeeded, and for the PDF only if pdf_ok; it is
\* never called for a discarded pair or with the mode off.
HookFollowsCompanion == HookOnlyWhenConfigured /\ HookCalledForCompanion


(***************************************************************************)
(* What the cleanup removes                                                *)
(***************************************************************************)
\* the directories below base_dir: <<g>> for a group, <<g, e>> for a folder
DirSet(f) ==
    {<<g>> : g \in DOMAIN f} \cup UNION {{<<g, e>> : e \in DOMAIN f[g]} : g \in DOMAIN f}

\* directory d holds a file, in it or below it
HoldsFile(f, d) ==
    IF Len(d) = 2 THEN DOMAIN f[d[1]][d[2]] # {}
    ELSE \E e \in DOMAIN f[d[1]] : DOMAIN f[d[1]][e] # {}

CleanupReturned == tool = "cleanup" /\ mainpc = "returned"

\* the files are as before and the count is that of the directories gone
FilesKeptAndCounted ==
    /\ DirSet(fs) \subseteq DirSet(hist.fs)
    /\ \A d \in DirSet(fs) : Len(d) = 2 => fs[d[1]][d[2]] = hist.fs[d[1]][d[2]]
    /\ \A d \in DirSet(hist.fs) : HoldsFile(hist.fs, d) => d \in DirSet(fs)
    /\ removed = Cardinality(DirSet(hist.fs)) - Cardinality(DirSet(fs))

====
